---- MODULE Spec2Model ----
(***************************************************************************)
(* A model of the minicms content server (cms/core): the FileManager's     *)
(* content graph, the plugin pipeline, the filesystem watcher, the         *)
(* listener and the RouterManager.                                         *)
(*                                                                         *)
(* Go values with identity are modelled as a heap: a *File is an index     *)
(* into fm.objs, a map[string]*File is an index into fm.maps.  A File      *)
(* copied by value (PluginManager.Process) is a new object that shares     *)
(* the two maps of the object it was copied from.                          *)
(***************************************************************************)
EXTENDS Integers, Sequences, FiniteSets, TLC

\* ------------------------------------------------------------------ bounds

\* File objects the model allocates (walks, AddFile and pipeline copies).
MaxObjs == 13
\* Filesystem changes made by the environment in one run.
MaxDiskOps == 4
\* Capacity of the watcher's event channel in the model (the code's is 100).
ChanCap == 2
\* Lifecycle calls (Start/Stop) made in one run of the lifecycle specification.
MaxCalls == 5
\* Filesystem changes in one run of the FileManager specification.
MaxFMDiskOps == 1
\* FileManager operations called in one run of the FileManager specification.
MaxFMCalls == 6
\* Dependency edges declared in one run of the graph specification.
MaxEdges == 4
\* Changes made to the graph in one run of the request specification.
MaxServeCalls == 2
\* Calls made on the RouterManager in one run of the router specification.
MaxRouterCalls == 4

\* ----------------------------------------------------------------- strings

\* The characters of the names the model uses: Go strings are compared by
\* prefix, suffix and extension, so a name stands for its characters.
Chars(n) ==
    CASE n = "content"     -> <<"c","o","n","t","e","n","t">>
      [] n = "layout"      -> <<"l","a","y","o","u","t">>
      [] n = "assets"      -> <<"a","s","s","e","t","s">>
      [] n = "blog"        -> <<"b","l","o","g">>
      [] n = "a.html"      -> <<"a",".","h","t","m","l">>
      [] n = "a.md"        -> <<"a",".","m","d">>
      [] n = ".a.html"     -> <<".","a",".","h","t","m","l">>
      [] n = "a.html~"     -> <<"a",".","h","t","m","l","~">>
      [] n = "a"           -> <<"a">>
      [] n = "p.html"      -> <<"p",".","h","t","m","l">>
      [] n = "p"           -> <<"p">>
      [] n = "blog2"       -> <<"b","l","o","g","2">>
      [] n = "blog.md"     -> <<"b","l","o","g",".","m","d">>
      [] n = "x.md"        -> <<"x",".","m","d">>
      [] n = "x"           -> <<"x">>
      [] n = "header.html" -> <<"h","e","a","d","e","r",".","h","t","m","l">>
      [] n = "footer.html" -> <<"f","o","o","t","e","r",".","h","t","m","l">>
      [] n = "s.css"       -> <<"s",".","c","s","s">>
      [] n = "site"        -> <<"s","i","t","e">>
      [] n = "."           -> <<".">>
      [] n = ".."          -> <<".",".">>
      [] n = ""            -> << >>

Names ==
    {"content", "layout", "assets", "blog", "a.html", "a.md", ".a.html", "a.html~", "a", "p.html",
     "p", "blog2", "blog.md", "x.md", "x", "header.html", "footer.html", "s.css", "site", ".",
     "..", ""}

NameOf(cs) == CHOOSE n \in Names : Chars(n) = cs

\* strings.HasPrefix / strings.HasSuffix on character sequences.
HasPrefix(s, pre) == Len(pre) <= Len(s) /\ SubSeq(s, 1, Len(pre)) = pre
HasSuffix(s, suf) ==
    Len(suf) <= Len(s) /\ SubSeq(s, Len(s) - Len(suf) + 1, Len(s)) = suf

RECURSIVE JoinChars(_)
\* The characters of a path given as its segments, joined by "/".
JoinChars(segs) ==
    IF segs = << >> THEN << >>
    ELSE IF Len(segs) = 1 THEN Chars(segs[1])
    ELSE Chars(segs[1]) \o <<"/">> \o JoinChars(Tail(segs))

\* filepath.Ext: the suffix of the name beginning at its last dot.
ExtChars(cs) ==
    LET dots == {i \in 1..Len(cs) : cs[i] = "."}
    IN  IF dots = {} THEN << >>
        ELSE LET last == CHOOSE i \in dots : \A j \in dots : j <= i
             IN  SubSeq(cs, last, Len(cs))

\* strings.TrimSuffix(name, filepath.Ext(name)), as a name.
TrimExt(n) ==
    LET cs == Chars(n)
    IN  NameOf(SubSeq(cs, 1, Len(cs) - Len(ExtChars(cs))))

\* ------------------------------------------------------------------- paths

\* A site-relative path is the sequence of its segments; "" is << >>.
DotPath == <<".">>

RECURSIVE CleanFrom(_, _)
CleanFrom(segs, acc) ==
    IF segs = << >> THEN acc
    ELSE LET s == segs[1]
             rest == Tail(segs)
         IN  IF s = "" \/ s = "." THEN CleanFrom(rest, acc)
             ELSE IF s = ".." /\ acc # << >> /\ acc[Len(acc)] # ".."
                  THEN CleanFrom(rest, SubSeq(acc, 1, Len(acc) - 1))
             ELSE CleanFrom(rest, Append(acc, s))

\* filepath.Clean of a relative path: "." and empty segments dropped, ".."
\* resolved, and "." for the empty result.
Clean(p) ==
    LET c == CleanFrom(p, << >>)
    IN  IF c = << >> THEN DotPath ELSE c

\* filepath.Dir and filepath.Base of a cleaned relative path.
Dir(p) == IF Len(p) <= 1 THEN DotPath ELSE SubSeq(p, 1, Len(p) - 1)
Base(p) == p[Len(p)]

ContentSlash == Chars("content") \o <<"/">>
LayoutSlash == Chars("layout") \o <<"/">>

\* strings.HasPrefix(path, "content/")
UnderContent(p) == HasPrefix(JoinChars(p), ContentSlash)
UnderLayout(p) == HasPrefix(JoinChars(p), LayoutSlash)

\* p lies in the directory tree below d (or is d): what filepath.Walk visits.
Below(p, d) == Len(d) <= Len(p) /\ SubSeq(p, 1, Len(d)) = d

\* The site the model ranges over.
ContentDir == <<"content">>
LayoutDir == <<"layout">>
AssetsDir == <<"assets">>
BlogDir == <<"content", "blog">>
FileA == <<"content", "a.html">>
FileAmd == <<"content", "a.md">>
FileP == <<"content", "blog", "p.html">>
HeaderPath == <<"layout", "header.html">>
FooterPath == <<"layout", "footer.html">>
FileCss == <<"assets", "s.css">>
\* Siblings of content/blog whose path begins with the same characters.
Blog2Dir == <<"content", "blog2">>
FileBlogMd == <<"content", "blog.md">>
FileX == <<"content", "blog2", "x.md">>
\* A layout file besides the header and the footer.
FilePartial == <<"layout", "a.html">>
\* A hidden file and an editor's backup file.
HiddenFile == <<"content", ".a.html">>
TempFile == <<"content", "a.html~">>

\* Lexical order, the order in which filepath.Walk visits.
FileOrder ==
    <<FileCss, HiddenFile, FileA, TempFile, FileAmd, FileP, FileBlogMd, FileX, FilePartial,
      FooterPath, HeaderPath>>
AllFiles == {FileOrder[i] : i \in 1..Len(FileOrder)}
AllDirs == {ContentDir, LayoutDir, AssetsDir, BlogDir}

Range(f) == {f[x] : x \in DOMAIN f}

\* -------------------------------------------------------------- small maps

EmptyMap == [x \in {} |-> 0]
MapPut(m, k, v) == [x \in DOMAIN m \cup {k} |-> IF x = k THEN v ELSE m[x]]
MapDel(m, k) == [x \in DOMAIN m \ {k} |-> m[x]]

Nil == 0
NoContent == "nil"

\* The element of a one-element set.
The(S) == CHOOSE x \in S : TRUE

\* ------------------------------------------------------- FileManager: heap

\* A File object.  deps and dpts are the identities of its Dependencies and
\* Dependents maps: a copy of a File shares both maps with its original.
NewFileRec(p, m) ==
    [path |-> p, content |-> NoContent, routes |-> << >>, mime |-> "",
     redirect |-> "", ign |-> FALSE, deps |-> m + 1, dpts |-> m + 2]

\* &File{Name, Path, Parent, Dependencies: make(..), Dependents: make(..)}
AllocFile(st, p) ==
    [st EXCEPT !.maps = st.maps \o <<EmptyMap, EmptyMap>>,
               !.objs = Append(st.objs, NewFileRec(p, Len(st.maps)))]

\* NewFileManager: an empty root directory and an empty path index.
NewFileManager == [objs |-> << >>, maps |-> << >>, files |-> EmptyMap, dirs |-> {}]

\* FileManager.GetFile: the object the path index holds for the cleaned path.
GetFile(st, p) ==
    LET c == Clean(p) IN IF c \in DOMAIN st.files THEN st.files[c] ELSE Nil

\* File.NeedsUpdate
NeedsUpdate(st, o) == st.objs[o].content = NoContent

\* File.AddDependency for a File with Dependencies map fdeps, path fpath and
\* identity f: f.Dependencies[other.Path] = other; other.Dependents[f.Path] = f.
AddDepMaps(st, fdeps, fpath, f, other) ==
    LET o == st.objs[other]
        m1 == [st.maps EXCEPT ![fdeps] = MapPut(@, o.path, other)]
    IN  [st EXCEPT !.maps = [m1 EXCEPT ![o.dpts] = MapPut(@, fpath, f)]]

AddDependency(st, f, other) ==
    AddDepMaps(st, st.objs[f].deps, st.objs[f].path, f, other)

\* A traversal that clears the File but does not go on to its dependents.
MarkOnlySelf(st, o, tr) ==
    {[visited |-> tr.visited \cup {st.objs[o].path}, order |-> Append(tr.order, o)]}

\* One traversal state of markForUpdateRecursive: the visited paths and the
\* objects whose Content was set to nil, in the order they were visited.
RECURSIVE MarkVisit(_, _, _), MarkIter(_, _, _)
\* File.markForUpdateRecursive: every result the traversal can have (Go
\* ranges over f.Dependents in an unspecified order).
MarkVisit(st, o, tr) ==
    IF st.objs[o].path \in tr.visited THEN {tr}
    ELSE MarkIter(st, Range(st.maps[st.objs[o].dpts]),
                  [visited |-> tr.visited \cup {st.objs[o].path},
                   order |-> Append(tr.order, o)])

MarkIter(st, S, tr) ==
    IF S = {} THEN {tr}
    ELSE UNION {UNION {MarkIter(st, S \ {c}, t2) : t2 \in MarkVisit(st, c, tr)}
                : c \in S}

\* File.MarkForUpdate: the possible visit orders.
MarkOrders(st, o) ==
    {tr.order : tr \in MarkVisit(st, o, [visited |-> {}, order |-> << >>])}

ClearContent(st, order) ==
    [st EXCEPT !.objs = [i \in 1..Len(st.objs) |->
        IF i \in Range(order) THEN [st.objs[i] EXCEPT !.content = NoContent]
        ELSE st.objs[i]]]

\* File.MarkForUpdate: the possible heaps afterwards.
MarkForUpdate(st, o) == {ClearContent(st, ord) : ord \in MarkOrders(st, o)}

\* The directories createDirectory adds to the tree for a path.
DirsUpTo(p) == {SubSeq(p, 1, i) : i \in 1..Len(p)}

\* FileManager.createDirectory
CreateDirectory(st, p) ==
    IF p = << >> \/ p = DotPath THEN st
    ELSE [st EXCEPT !.dirs = st.dirs \cup DirsUpTo(CleanFrom(p, << >>))]

\* FileManager.findDirectory with findDirectoryRecursive: "dir" when every
\* component is in the tree, "nil" when only the last one is missing, and
\* "panic" (nil dereference of dir.Subdirs) when an earlier one is missing.
FindDirectory(st, p) ==
    IF p = << >> \/ p = DotPath THEN "dir"
    ELSE LET c == Clean(p)
             missing == {i \in 1..Len(c) : SubSeq(c, 1, i) \notin st.dirs}
         IN  IF missing = {} THEN "dir"
             ELSE IF missing = {Len(c)} THEN "nil"
             ELSE "panic"

\* FileManager.GetDirectory
GetDirectory(st, p) ==
    p = << >> \/ p = DotPath \/ CleanFrom(p, << >>) \in st.dirs

\* ------------------------------------------------------------------- disk

\* The site directory on disk: its directories, its files, the files whose
\* frontmatter says ignore-layout: true (ign) or gives a redirect-url
\* (redir), and the files that are symbolic links to a regular file (links).
EmptyDisk == [dirs |-> {}, files |-> {}, ign |-> {}, redir |-> {}, links |-> {}]

\* IgnoreFile for the base name n and a FileInfo whose mode has
\* os.ModeSymlink set or not: hidden names, symlinks, temporary suffixes.
IgnoreFile(n, symlink) ==
    LET cs == Chars(n)
    IN  \/ HasPrefix(cs, <<".">>)
        \/ symlink
        \/ \E suf \in {<<".","b","a","k">>, <<".","t","m","p">>, <<"~">>,
                       <<".","s","w","p">>, <<".","l","o","c","k">>} : HasSuffix(cs, suf)

\* A path filepath.Walk reaches from root: no component from the root on is
\* ignored, with the FileInfo of os.Lstat (a symlink is seen as one).
Walked(p, root, dsk) ==
    /\ Below(p, root)
    /\ \A i \in Len(root)..Len(p) :
          i >= 1 => ~IgnoreFile(p[i], SubSeq(p, 1, i) \in dsk.links)

RECURSIVE WalkFiles(_, _, _)
\* The File objects WalkDirectory creates, in walk order: each replaces the
\* index entry for its path with a new File without content or edges.
WalkFiles(st, todo, found) ==
    IF todo = << >> THEN st
    ELSE LET p == todo[1]
         IN  IF p \in found
             THEN The({WalkFiles(s1, Tail(todo), found) :
                       s1 \in {[AllocFile(st, p) EXCEPT
                                   !.files = MapPut(st.files, p, Len(st.objs) + 1)]}})
             ELSE WalkFiles(st, Tail(todo), found)

\* FileManager.WalkDirectory: ok is FALSE when the root cannot be accessed.
WalkDirectory(st, root, dsk) ==
    IF root # << >> /\ root \notin dsk.dirs THEN [ok |-> FALSE, st |-> st]
    ELSE LET ds == {d \in dsk.dirs : Walked(d, root, dsk)}
             fs == {f \in dsk.files : Walked(f, root, dsk)}
             newDirs == UNION {DirsUpTo(d) : d \in ds}
         IN  [ok |-> TRUE,
              st |-> WalkFiles([st EXCEPT !.dirs = st.dirs \cup newDirs], FileOrder, fs)]

\* The parent directory lookup of AddFile and RemoveFile: TRUE when it panics.
ParentPanics(st, cleanPath) ==
    LET dirPath == Dir(cleanPath)
    IN  dirPath # DotPath /\ dirPath # << >> /\ FindDirectory(st, dirPath) # "dir"

\* FileManager.AddFile: the possible results; panic when the parent directory
\* is not in the tree.
AddFile(st, p) ==
    LET c == Clean(p)
    IN  IF ParentPanics(st, c) THEN {[panic |-> TRUE, st |-> st]}
        ELSE LET st1 == IF c \in DOMAIN st.files THEN st
                        ELSE [AllocFile(st, c) EXCEPT
                                 !.files = MapPut(st.files, c, Len(st.objs) + 1)]
             IN  {[panic |-> FALSE, st |-> s2] : s2 \in MarkForUpdate(st1, st1.files[c])}

\* delete(f.Dependencies, key); delete(f.Dependents, key) for every indexed File.
DropEdges(st, key) ==
    LET ms == UNION {{st.objs[st.files[q]].deps, st.objs[st.files[q]].dpts}
                     : q \in DOMAIN st.files}
    IN  [st EXCEPT !.maps = [i \in 1..Len(st.maps) |->
            IF i \in ms THEN MapDel(st.maps[i], key) ELSE st.maps[i]]]

\* FileManager.RemoveFile
RemoveFile(st, p) ==
    LET file == GetFile(st, p)
        c == Clean(p)
    IN  IF file = Nil THEN {[panic |-> FALSE, st |-> st]}
        ELSE IF ParentPanics(st, c) THEN {[panic |-> TRUE, st |-> st]}
        ELSE LET st1 == [st EXCEPT !.files = MapDel(st.files, c)]
             IN  {[panic |-> FALSE, st |-> DropEdges(s2, c)]
                  : s2 \in MarkForUpdate(st1, file)}

RECURSIVE RemoveDirFiles(_, _)
\* The file loop of RemoveDirectory, in every order Go may range over
\* fm.Files: the edges on the path are deleted from every File still in the
\* index, then the path is deleted from the index.
RemoveDirFiles(st, S) ==
    IF S = {} THEN {st}
    ELSE UNION {UNION {RemoveDirFiles(s1, S \ {p}) :
                       s1 \in {[DropEdges(st, p) EXCEPT !.files = MapDel(st.files, p)]}}
                : p \in S}

\* FileManager.RemoveDirectory: the files whose path string has the cleaned
\* root path as a prefix are removed, then the directory is unlinked from
\* its parent (the root directory has no parent).
RemoveDirectory(st, rootPath) ==
    LET c == Clean(rootPath)
        gone == {p \in DOMAIN st.files : HasPrefix(JoinChars(p), JoinChars(c))}
        found == FindDirectory(st, c)
    IN  {[panic |-> found = "panic",
          st |-> IF found = "dir" /\ c # DotPath
                 THEN [s1 EXCEPT !.dirs = {d \in s1.dirs : ~Below(d, c)}]
                 ELSE s1]
         : s1 \in RemoveDirFiles(st, gone)}

\* ---------------------------------------------------------------- plugins

\* A built-in plugin: its name and its Priority().
Builtin(name) == [name |-> name, priority |-> 100]

\* The plugins main registers, in the order RegisterPlugin leaves them (all
\* three have priority 100).
Plugins == <<Builtin("html"), Builtin("text"), Builtin("markdown")>>

RawContent == "raw"
HtmlContent == "html"
\* The redirect-url a frontmatter or a caller gives a File.
RedirectTarget == "/new-page"

RECURSIVE Tokenize(_)
\* A URL path as its tokens: "/" and the names between the slashes.
Tokenize(segs) ==
    IF segs = << >> THEN << >> ELSE <<"/", segs[1]>> \o Tokenize(Tail(segs))

\* route := path.Clean("/" + strings.TrimLeft(strings.TrimPrefix(p, "content/"), "/"))
RouteOf(p) ==
    LET segs == IF UnderContent(p) THEN Tail(p) ELSE p
    IN  IF segs = << >> THEN <<"/">> ELSE Tokenize(segs)

\* strings.TrimSuffix(route, filepath.Ext(route))
RouteNoExt(r) ==
    IF Len(r) < 2 THEN r ELSE [r EXCEPT ![Len(r)] = TrimExt(r[Len(r)])]

\* filepath.Dir(route), "/" for a top-level route.
RouteDir(r) == IF Len(r) <= 2 THEN <<"/">> ELSE SubSeq(r, 1, Len(r) - 2)

\* The routes the HTML and Markdown plugins derive for a file.
PageRoutes(p, index) ==
    LET r == RouteOf(p)
    IN  <<r, RouteNoExt(r)>> \o (IF r[Len(r)] = index THEN <<RouteDir(r)>> ELSE << >>)

\* &PluginResult{Success: false}: Routes is the nil slice (routesNil).
FailResult ==
    [success |-> FALSE, modified |-> FALSE, newContent |-> NoContent, mime |-> "",
     routesNil |-> TRUE, routes |-> << >>, deps |-> << >>]

\* header.Content = header.ReadFile(..) when it is nil (os.ReadFile fails
\* when the file is not on disk).
FillContent(st, o, dsk) ==
    IF st.objs[o].content = NoContent /\ st.objs[o].path \in dsk.files
    THEN [st EXCEPT !.objs[o].content = RawContent]
    ELSE st

\* BuiltinHtmlPlugin.Process and BuiltinMarkdownPlugin.Process (they differ
\* in the conversion of the body and in the name of the index page): the
\* heap afterwards, the File copy with the parsed frontmatter, the result.
PagePluginProcess(st, cp, dsk, index) ==
    IF cp.redirect # "" THEN [st |-> st, cp |-> cp, res |-> FailResult]
    ELSE IF cp.path \notin dsk.files THEN [st |-> st, cp |-> cp, res |-> FailResult]
    ELSE LET cp1 == [cp EXCEPT !.ign = cp.ign \/ cp.path \in dsk.ign,
                               !.redirect = IF cp.path \in dsk.redir
                                            THEN RedirectTarget ELSE @]
             ok == [success |-> TRUE, modified |-> TRUE, newContent |-> HtmlContent,
                    mime |-> "text/html", routesNil |-> FALSE,
                    routes |-> PageRoutes(cp.path, index), deps |-> << >>]
             h == GetFile(st, <<"layout", "header.html">>)
             f == GetFile(st, <<"layout", "footer.html">>)
         IN  IF cp1.ign THEN [st |-> st, cp |-> cp1, res |-> ok]
             ELSE IF h = Nil \/ f = Nil THEN [st |-> st, cp |-> cp1, res |-> FailResult]
             ELSE The({IF st2.objs[h].content = NoContent \/ st2.objs[f].content = NoContent
                       THEN [st |-> st2, cp |-> cp1, res |-> FailResult]
                       ELSE [st |-> st2, cp |-> cp1, res |-> [ok EXCEPT !.deps = <<h, f>>]]
                       : st2 \in {FillContent(FillContent(st, h, dsk), f, dsk)}})

\* BuiltinTextPlugin.Process: the result carries NewContent but not Modified.
TextPluginProcess(st, cp, dsk) ==
    IF cp.path \notin dsk.files THEN [st |-> st, cp |-> cp, res |-> FailResult]
    ELSE [st |-> st, cp |-> cp,
          res |-> [success |-> TRUE, modified |-> FALSE, newContent |-> RawContent,
                   mime |-> "text/plain; charset=utf-8", routesNil |-> FALSE,
                   routes |-> <<RouteOf(cp.path)>>, deps |-> << >>]]

\* Plugin.CanProcess of the three plugins and of a mockPlugin.
CanProcess(plugin, rec) ==
    LET cs == Chars(Base(rec.path))
    IN  CASE plugin.name = "html" ->
               /\ ~UnderLayout(rec.path)
               /\ \/ HasSuffix(cs, <<".","h","t","m","l">>)
                  \/ HasSuffix(cs, <<".","h","t","m">>)
          [] plugin.name = "markdown" ->
               /\ ~UnderLayout(rec.path)
               /\ \/ HasSuffix(cs, <<".","m","d">>)
                  \/ HasSuffix(cs, <<".","m","a","r","k","d","o","w","n">>)
          [] plugin.name = "text" -> HasSuffix(cs, <<".","t","x","t">>)
          [] OTHER -> plugin.canProcess

\* mockPlugin.Process: the result the plugin was built to return, with the
\* Files of its dependency paths looked up in the graph.
MockPluginProcess(plugin, st, cp) ==
    [st |-> st, cp |-> cp,
     res |-> [plugin.result EXCEPT
                !.deps = SelectSeq([i \in 1..Len(@) |-> GetFile(st, @[i])],
                                   LAMBDA o : o # Nil)]]

PluginProcess(plugin, st, cp, dsk) ==
    CASE plugin.name = "html" -> PagePluginProcess(st, cp, dsk, "index.html")
      [] plugin.name = "markdown" -> PagePluginProcess(st, cp, dsk, "index.md")
      [] plugin.name = "text" -> TextPluginProcess(st, cp, dsk)
      [] OTHER -> MockPluginProcess(plugin, st, cp)

\* PluginManager.GetPluginsForFile on the plugin list plugins
MatchingPlugins(plugins, rec) == SelectSeq(plugins, LAMBDA pl : CanProcess(pl, rec))

\* PluginManager.GetPluginsForFile of the manager main has set up
GetPluginsForFile(rec) == MatchingPlugins(Plugins, rec)

\* The merge of one PluginResult into the in-flight copy (the dependencies
\* go to the heap, see AddDeps).
MergeResult(cp, res) ==
    [cp EXCEPT
       !.content = IF res.modified /\ res.newContent # NoContent THEN res.newContent ELSE @,
       !.mime = IF res.mime # "" THEN res.mime ELSE @,
       !.routes = IF ~res.routesNil THEN res.routes ELSE @]

RECURSIVE AddDeps(_, _, _, _)
\* for _, dep := range result.Dependencies { copy.AddDependency(dep) }
AddDeps(st, cp, new, deps) ==
    IF deps = << >> THEN st
    ELSE The({AddDeps(s1, cp, new, Tail(deps)) :
              s1 \in {AddDepMaps(st, cp.deps, cp.path, new, deps[1])}})

RECURSIVE RunPlugins(_, _, _, _, _)
\* The plugin loop of PluginManager.Process on the copy cp, whose address
\* will be new.
RunPlugins(st, cp, new, plugins, dsk) ==
    IF plugins = << >> THEN [st |-> st, cp |-> cp, ran |-> << >>]
    ELSE The({
           The({The({The({[rest EXCEPT !.ran = <<[plugin |-> plugins[1], res |-> r.res,
                                                 cp |-> cp1,
                                                 deps |-> DOMAIN s1.maps[cp1.deps]]>> \o @]
                          : rest \in {RunPlugins(s1, cp1, new, Tail(plugins), dsk)}})
                     : s1 \in {AddDeps(r.st, cp1, new, r.res.deps)}})
                : cp1 \in {MergeResult(r.cp, r.res)}})
           : r \in {PluginProcess(plugins[1], st, cp, dsk)}})

\* PluginManager.Process on a by-value copy of object src: the copy becomes
\* the new object Len(st.objs) + 1.
Process(st, src, dsk) ==
    The({[r.st EXCEPT !.objs = Append(r.st.objs, r.cp)] :
         r \in {RunPlugins(st, st.objs[src], Len(st.objs) + 1,
                           GetPluginsForFile(st.objs[src]), dsk)}})

\* PluginManager.Process of a manager with the plugin list plugins: the heap
\* afterwards and what each plugin that ran returned and left.
ProcessWith(plugins, st, src, dsk) ==
    The({[st |-> [r.st EXCEPT !.objs = Append(r.st.objs, r.cp)], ran |-> r.ran] :
         r \in {RunPlugins(st, st.objs[src], Len(st.objs) + 1,
                           MatchingPlugins(plugins, st.objs[src]), dsk)}})

RECURSIVE ProcessEach(_, _, _, _)
\* The processing loop of ProcessAllFiles and ProcessUpdatedFiles over the
\* snapshot snap (path -> *File), in every order: the result of the
\* pipeline is stored in the index under the path.
ProcessEach(st, S, snap, dsk) ==
    IF S = {} THEN {st}
    ELSE UNION {UNION {ProcessEach([s1 EXCEPT !.files = MapPut(s1.files, p, Len(s1.objs))],
                                   S \ {p}, snap, dsk) :
                       s1 \in {Process(st, snap[p], dsk)}}
                : p \in S}

\* FileManager.ProcessAllFiles
ProcessAllFiles(st, dsk) == ProcessEach(st, DOMAIN st.files, st.files, dsk)

\* FileManager.ProcessUpdatedFiles
ProcessUpdatedFiles(st, dsk) ==
    ProcessEach(st, {p \in DOMAIN st.files : NeedsUpdate(st, st.files[p])}, st.files, dsk)

\* ------------------------------------------------------- garbage collection

\* The pointers a map holds, in the order of their keys.
MapTargets(m) ==
    LET keys == SelectSeq(FileOrder, LAMBDA k : k \in DOMAIN m)
    IN  [i \in 1..Len(keys) |-> m[keys[i]]]

RECURSIVE AppendNew(_, _)
\* list extended by the elements of more it does not hold yet.
AppendNew(list, more) ==
    IF more = << >> THEN list
    ELSE AppendNew(IF more[1] \in Range(list) THEN list ELSE Append(list, more[1]),
                   Tail(more))

RECURSIVE LiveFrom(_, _, _)
\* The objects reachable from the path index through Dependencies and
\* Dependents, listed breadth-first from position i of the list.
LiveFrom(st, list, i) ==
    IF i > Len(list) THEN list
    ELSE LET o == st.objs[list[i]]
         IN  LiveFrom(st, AppendNew(list, MapTargets(st.maps[o.deps])
                                            \o MapTargets(st.maps[o.dpts])), i + 1)

RECURSIVE LiveMaps(_, _, _)
\* The maps of the live objects, in the order of the objects.
LiveMaps(st, live, acc) ==
    IF live = << >> THEN acc
    ELSE LiveMaps(st, Tail(live),
                  AppendNew(acc, <<st.objs[live[1]].deps, st.objs[live[1]].dpts>>))

\* The position of x in a list without duplicates.
Pos(x, list) == CHOOSE i \in 1..Len(list) : list[i] = x

\* The heap with the objects of live and the maps of lmaps only, each
\* renumbered by its position.
Renumber(st, live, lmaps) ==
    [st EXCEPT
       !.objs = [k \in 1..Len(live) |->
                   LET o == st.objs[live[k]]
                   IN  [o EXCEPT !.deps = Pos(o.deps, lmaps),
                                 !.dpts = Pos(o.dpts, lmaps)]],
       !.maps = [k \in 1..Len(lmaps) |->
                   LET m == st.maps[lmaps[k]]
                   IN  [x \in DOMAIN m |-> Pos(m[x], live)]],
       !.files = [x \in DOMAIN st.files |-> Pos(st.files[x], live)]]

\* Go's garbage collector: File objects and maps no longer reachable from
\* the path index are dropped.  Addresses carry no meaning of their own, so
\* the live objects are renumbered in the order they are reached.
Compact(st) ==
    The({The({Renumber(st, live, lmaps) : lmaps \in {LiveMaps(st, live, << >>)}})
         : live \in {LiveFrom(st, MapTargets(st.files), 1)}})

\* ------------------------------------------------------------- fm.mu

\* The goroutines of the locking specification: the startup run of
\* ProcessAllFiles, two parallel ProcessUpdatedFiles runs, the listener
\* handling a FileCreated event, and an HTTP handler reading the graph.
Goroutines == {"all", "upd1", "upd2", "created", "http"}

NoThreads == [t \in Goroutines |-> << >>]

\* sync.RWMutex: the number of read locks each goroutine holds, the writer,
\* and the goroutines blocked in Lock().  A blocked writer keeps new readers
\* out, which is why a goroutine must never take the read lock twice.
Unlocked == [readers |-> [t \in Goroutines |-> 0], writer |-> "", waiting |-> {}]

CanRLock(m) == m.writer = "" /\ m.waiting = {}

RLock(m, t) == [m EXCEPT !.readers[t] = @ + 1]

RUnlock(m, t) == [m EXCEPT !.readers[t] = @ - 1]

CallLock(m, t) == [m EXCEPT !.waiting = @ \cup {t}]

CanLock(m) == m.writer = "" /\ \A r \in Goroutines : m.readers[r] = 0

Lock(m, t) == [m EXCEPT !.writer = t, !.waiting = @ \ {t}]

Unlock(m) == [m EXCEPT !.writer = ""]

\* ------------------------------------------------------------------ state

VARIABLES
    mu,        \* fm.mu, the FileManager's sync.RWMutex
    threads,   \* what each goroutine of the locking specification has left to do
    pm,        \* the PluginManager: the registered plugins in list order
    fm,        \* the FileManager: heap, path index, directory tree
    disk,      \* the site directory on disk
    ops,       \* filesystem changes made so far
    crashed,   \* a goroutine panicked: the process has aborted
    mark,      \* the last MarkForUpdate call of the graph specification
    fw,        \* the FileWatcher
    lsn,       \* the FileWatcherListener
    queue,     \* fw.eventChan
    rm,        \* the RouterManager and the engine the HTTP server holds
    last,      \* the last event the listener has handled
    calls,     \* lifecycle calls made so far
    lastCall   \* the last lifecycle call and its result

vars == <<mu, threads, pm, fm, disk, ops, crashed, mark, fw, lsn, queue, rm, last, calls, lastCall>>

NoMark == [root |-> Nil, order |-> << >>, before |-> << >>]
NoEvent == [type |-> "none"]
NoCall == [op |-> "none"]

\* NewFileWatcher and newFileWatcherListener: nothing runs, nothing is watched.
NewFileWatcher ==
    [running |-> FALSE, closed |-> FALSE, cancelled |-> FALSE, rootPath |-> << >>,
     watched |-> {}, notify |-> {}]
NewListener == [running |-> FALSE, cancelled |-> FALSE]
\* NewRouterManager: no routes, no engine yet.
NewRouterManager ==
    [routes |-> EmptyMap, router |-> Nil, engines |-> << >>, fmSet |-> FALSE]

\* ------------------------------------------------ the graph specification
\* Files and dependency edges built through the File API, as the tests do.

GraphPaths == <<<<"a">>, <<"p">>, <<"blog">>>>

InitGraph ==
    /\ fm = NewFileManager
    /\ disk = EmptyDisk
    /\ ops = 0
    /\ crashed = FALSE
    /\ mark = NoMark
    /\ fw = NewFileWatcher
    /\ lsn = NewListener
    /\ queue = << >>
    /\ rm = NewRouterManager
    /\ last = NoEvent
    /\ calls = 0
    /\ lastCall = NoCall
    /\ mu = Unlocked
    /\ threads = NoThreads
    /\ pm = Plugins

EdgeCount(st) ==
    Cardinality({<<o, k>> \in (1..Len(st.objs)) \X {GraphPaths[i] : i \in 1..Len(GraphPaths)}
                   : k \in DOMAIN st.maps[st.objs[o].deps]})

\* fm.AddFile(path) for the next path: a new File without content or edges.
GraphAddFile ==
    /\ Len(fm.objs) < Len(GraphPaths)
    /\ \E r \in AddFile(fm, GraphPaths[Len(fm.objs) + 1]) : fm' = r.st
    /\ mark' = NoMark
    /\ UNCHANGED <<mu, threads, pm, disk, ops, crashed, fw, lsn, queue, rm, last, calls, lastCall>>

\* f.AddDependency(g) for two Files, f = g included.
GraphAddDependency ==
    /\ \E f, g \in 1..Len(fm.objs) :
          /\ fm.objs[g].path \notin DOMAIN fm.maps[fm.objs[f].deps]
          /\ EdgeCount(fm) < MaxEdges
          /\ fm' = AddDependency(fm, f, g)
    /\ mark' = NoMark
    /\ UNCHANGED <<mu, threads, pm, disk, ops, crashed, fw, lsn, queue, rm, last, calls, lastCall>>

\* f.Content = []byte(..): the File has been processed.
GraphSetContent ==
    /\ \E f \in 1..Len(fm.objs) :
          /\ fm.objs[f].content = NoContent
          /\ fm' = [fm EXCEPT !.objs[f].content = RawContent]
    /\ mark' = NoMark
    /\ UNCHANGED <<mu, threads, pm, disk, ops, crashed, fw, lsn, queue, rm, last, calls, lastCall>>

\* f.MarkForUpdate(), recording the order of the visits and the contents before.
GraphMarkForUpdate ==
    /\ \E f \in 1..Len(fm.objs) : \E ord \in MarkOrders(fm, f) :
          /\ fm' = ClearContent(fm, ord)
          /\ mark' = [root |-> f, order |-> ord,
                      before |-> [i \in 1..Len(fm.objs) |-> fm.objs[i].content]]
    /\ UNCHANGED <<mu, threads, pm, disk, ops, crashed, fw, lsn, queue, rm, last, calls, lastCall>>

NextGraph ==
    \/ GraphAddFile
    \/ GraphAddDependency
    \/ GraphSetContent
    \/ GraphMarkForUpdate

SpecGraph == InitGraph /\ [][NextGraph]_vars

RECURSIVE DependentsClosure(_, _)
\* The Files reachable from S along dependent edges, by fixpoint.
DependentsClosure(st, S) ==
    LET next == S \cup UNION {Range(st.maps[st.objs[o].dpts]) : o \in S}
    IN  IF next = S THEN S ELSE DependentsClosure(st, next)

\* C2: markForUpdate(f) terminates on every finite dependency graph, cyclic
\* ones included: from every File the traversal has a result, it visits
\* each File reachable from f along dependent edges exactly once, f and
\* every reachable File end with content absent, and every other File keeps
\* the content it had.
C2_MarkForUpdateVisitsReachableOnce ==
    /\ \A f \in 1..Len(fm.objs) : MarkOrders(fm, f) # {}
    /\ mark.root # Nil =>
          LET reach == DependentsClosure(fm, {mark.root})
          IN  /\ Len(mark.order) = Cardinality(reach)
              /\ Range(mark.order) = reach
              /\ \A o \in 1..Len(fm.objs) :
                    fm.objs[o].content =
                        IF o \in reach THEN NoContent ELSE mark.before[o]

\* A marked cycle: two Files that each depend on the other were both
\* cleared by one call, while a third File outside the cycle kept its content.
C2_Witness ==
    /\ mark.root # Nil
    /\ Len(mark.order) = 2
    /\ \E o \in Range(mark.order) :
          /\ o # mark.root
          /\ mark.root \in Range(fm.maps[fm.objs[o].dpts])
          /\ mark.before[o] # NoContent
    /\ \E o \in 1..Len(fm.objs) : o \notin Range(mark.order) /\ fm.objs[o].content # NoContent

\* ------------------------------------------------------------ the site

\* A site as main expects it: content/ and layout/ with the two layout
\* files, and assets/ served statically.
SiteBase ==
    [dirs |-> {ContentDir, LayoutDir, AssetsDir},
     files |-> {FileA, HeaderPath, FooterPath, FileCss},
     ign |-> {}, redir |-> {}, links |-> {}]
\* The same site with a blog directory.
SiteBlog ==
    [SiteBase EXCEPT !.dirs = @ \cup {BlogDir}, !.files = @ \cup {FileP}]

\* Changes of the site directory made from outside the server.
DiskCreateFile(dsk, p) == [dsk EXCEPT !.files = @ \cup {p}]
\* p is created as a symbolic link to a regular file outside the site.
DiskCreateLink(dsk, p) == [dsk EXCEPT !.files = @ \cup {p}, !.links = @ \cup {p}]
DiskDeleteFile(dsk, p) ==
    [dsk EXCEPT !.files = @ \ {p}, !.ign = @ \ {p}, !.redir = @ \ {p}, !.links = @ \ {p}]
\* The file is rewritten, with or without ignore-layout: true in its frontmatter.
DiskWriteFile(dsk, p, ign) ==
    [dsk EXCEPT !.ign = IF ign THEN @ \cup {p} ELSE @ \ {p}]
\* A directory is moved into the site with the files in fs, or out of it.
DiskMoveDirIn(dsk, d, fs) == [dsk EXCEPT !.dirs = @ \cup {d}, !.files = @ \cup fs]
DiskMoveDirOut(dsk, d) ==
    [dirs |-> {x \in dsk.dirs : ~Below(x, d)},
     files |-> {x \in dsk.files : ~Below(x, d)},
     ign |-> {x \in dsk.ign : ~Below(x, d)},
     redir |-> {x \in dsk.redir : ~Below(x, d)},
     links |-> {x \in dsk.links : ~Below(x, d)}]

\* --------------------------------------- the FileManager specification
\* The operations of the FileManager called in any order while the site
\* directory changes.

\* The paths the operations are called with.
FMFiles == {FileA, HeaderPath, FooterPath, FileCss}

InitFM ==
    /\ fm = NewFileManager
    /\ disk = SiteBase
    /\ ops = 0
    /\ crashed = FALSE
    /\ mark = NoMark
    /\ fw = NewFileWatcher
    /\ lsn = NewListener
    /\ queue = << >>
    /\ rm = NewRouterManager
    /\ last = NoEvent
    /\ calls = 0
    /\ lastCall = NoCall
    /\ mu = Unlocked
    /\ threads = NoThreads
    /\ pm = Plugins

\* The paths of the indexed Files that have p in their Dependencies.
DependOn(st, p) ==
    {g \in DOMAIN st.files : p \in DOMAIN st.maps[st.objs[st.files[g]].deps]}

\* The operation is over: the heap is collected; the model allocates at
\* most MaxObjs live File objects.
FMDone(st, op) ==
    /\ calls < MaxFMCalls
    /\ \E c \in {Compact(st)} : Len(c.objs) <= MaxObjs /\ fm' = c
    /\ last' = op
    /\ calls' = calls + 1
    /\ UNCHANGED <<mu, threads, pm, disk, ops, crashed, mark, fw, lsn, queue, rm, lastCall>>

FMPanic ==
    /\ calls < MaxFMCalls
    /\ crashed' = TRUE
    /\ calls' = calls + 1
    /\ UNCHANGED <<mu, threads, pm, fm, disk, ops, mark, fw, lsn, queue, rm, last, lastCall>>

FMWalkDirectory ==
    /\ ~crashed
    /\ \E root \in {ContentDir, LayoutDir} : \E r \in {WalkDirectory(fm, root, disk)} :
          FMDone(r.st, NoEvent)

FMAddFile ==
    /\ ~crashed
    /\ \E p \in FMFiles : \E r \in AddFile(fm, p) :
          IF r.panic THEN FMPanic
          ELSE FMDone(r.st, NoEvent)

FMRemoveFile ==
    /\ ~crashed
    /\ \E p \in FMFiles : \E r \in RemoveFile(fm, p) :
          IF r.panic THEN FMPanic
          ELSE FMDone(r.st, [type |-> "removeFile", path |-> p,
                             present |-> GetFile(fm, p) # Nil,
                             dependents |-> DependOn(fm, p)])

FMRemoveDirectory ==
    /\ ~crashed
    /\ \E d \in {ContentDir, LayoutDir} : \E r \in RemoveDirectory(fm, d) :
          IF r.panic THEN FMPanic
          ELSE FMDone(r.st, NoEvent)

FMProcessAllFiles ==
    /\ ~crashed
    /\ \E st \in ProcessAllFiles(fm, disk) : FMDone(st, NoEvent)

FMProcessUpdatedFiles ==
    /\ ~crashed
    /\ \E st \in ProcessUpdatedFiles(fm, disk) : FMDone(st, NoEvent)

\* f.AddDependency(g) on two Files of the index: a page declares a layout file.
FMAddDependency ==
    /\ ~crashed
    /\ \E p \in DOMAIN fm.files \cap {FileA} : \E q \in DOMAIN fm.files \cap {HeaderPath, FooterPath} :
          /\ q \notin DOMAIN fm.maps[fm.objs[fm.files[p]].deps]
          /\ \E st \in {AddDependency(fm, fm.files[p], fm.files[q])} : FMDone(st, NoEvent)

\* The site directory changes: a file is created, deleted or rewritten, a
\* directory is moved in or out.
FMDiskChange ==
    /\ ~crashed
    /\ ops < MaxFMDiskOps
    /\ ops' = ops + 1
    /\ \/ \E p \in FMFiles \ disk.files :
             Dir(p) \in disk.dirs /\ disk' = DiskCreateFile(disk, p)
       \/ \E p \in disk.files : disk' = DiskDeleteFile(disk, p)
       \/ \E p \in disk.files \cap {FileA} : \E ign \in BOOLEAN :
             ign # (p \in disk.ign) /\ disk' = DiskWriteFile(disk, p, ign)
       \/ \E d \in disk.dirs \cap {ContentDir} : disk' = DiskMoveDirOut(disk, d)
    /\ UNCHANGED <<mu, threads, pm, fm, crashed, mark, fw, lsn, queue, rm, last, calls, lastCall>>

NextFM ==
    \/ FMWalkDirectory
    \/ FMAddFile
    \/ FMRemoveFile
    \/ FMRemoveDirectory
    \/ FMProcessAllFiles
    \/ FMProcessUpdatedFiles
    \/ FMAddDependency
    \/ FMDiskChange

SpecFM == InitFM /\ [][NextFM]_vars

\* C1: for all Files f and g in the path index, g's path is in
\* f.dependencies if and only if f's path is in g.dependents.
C1_DependencySymmetry ==
    \A p, q \in DOMAIN fm.files :
        (q \in DOMAIN fm.maps[fm.objs[fm.files[p]].deps])
            <=> (p \in DOMAIN fm.maps[fm.objs[fm.files[q]].dpts])

\* C3: after removeFile(p) has returned, getFile(p) is absent, every
\* indexed File that had p in its dependencies has content absent, and no
\* indexed File has p in its dependencies or in its dependents.
C3_RemoveFileInvalidatesDependents ==
    (last.type = "removeFile" /\ last.present) =>
        /\ GetFile(fm, last.path) = Nil
        /\ \A g \in last.dependents \cap DOMAIN fm.files :
              fm.objs[fm.files[g]].content = NoContent
        /\ \A q \in DOMAIN fm.files :
              /\ last.path \notin DOMAIN fm.maps[fm.objs[fm.files[q]].deps]
              /\ last.path \notin DOMAIN fm.maps[fm.objs[fm.files[q]].dpts]

\* ------------------------------------------------- watcher and listener

\* The site directory as the watcher is given it, and other roots a caller
\* can pass: the empty string, a path that does not exist, a regular file.
SiteRoot == <<"site">>
StartRoots == {<< >>, SiteRoot, SiteRoot \o <<"nosuch">>, SiteRoot \o HeaderPath}

\* os.Stat of a path given from outside the site directory.
Stat(dsk, path) ==
    IF path = << >> \/ path[1] # "site" THEN "error"
    ELSE LET rel == Tail(path)
         IN  IF rel = << >> \/ rel \in dsk.dirs THEN "dir"
             ELSE IF rel \in dsk.files THEN "file"
             ELSE "error"

\* FileWatcher.addDirectoryWatch on the site-relative directory d: every
\* directory below it that IgnoreFile lets through is added to fsnotify
\* (notify) and to watchedDirs (watched); fsnotify refuses once the watcher
\* is closed.
AddDirectoryWatch(w, d, dsk) ==
    IF w.cancelled THEN w
    ELSE LET found == {x \in dsk.dirs \cup {<< >>} :
                         /\ Below(x, d)
                         /\ ~IgnoreFile(IF x = << >> THEN "site" ELSE Base(x),
                                        x \in dsk.links)}
         IN  [w EXCEPT !.watched = @ \cup found, !.notify = @ \cup found]

\* FileWatcher.removeDirectoryWatch: the keys of watchedDirs are the paths
\* fsnotify was given (below fw.rootPath); they are compared with the
\* site-relative path of the event.
RemoveDirectoryWatch(w, dirPath) ==
    LET gone == {x \in w.watched : HasPrefix(JoinChars(w.rootPath \o x), JoinChars(dirPath))}
    IN  [w EXCEPT !.watched = @ \ gone, !.notify = @ \ gone]

\* A start that does not look at fw.running.
StartAnyway(w, root, dsk) ==
    IF root = << >> \/ Stat(dsk, root) # "dir" THEN [err |-> TRUE, fw |-> w]
    ELSE [err |-> FALSE,
          fw |-> AddDirectoryWatch([w EXCEPT !.running = TRUE, !.rootPath = root],
                                   Tail(root), dsk)]

\* FileWatcher.Start
WatcherStart(w, root, dsk) ==
    IF root = << >> THEN [err |-> TRUE, fw |-> w]
    ELSE IF Stat(dsk, root) # "dir" THEN [err |-> TRUE, fw |-> w]
    ELSE IF w.running THEN [err |-> TRUE, fw |-> w]
    ELSE [err |-> FALSE,
          fw |-> AddDirectoryWatch([w EXCEPT !.running = TRUE, !.rootPath = root],
                                   Tail(root), dsk)]

\* FileWatcher.Stop: close(fw.eventChan) panics when the channel is closed.
WatcherStop(w) ==
    IF ~w.running THEN [err |-> TRUE, panic |-> FALSE, fw |-> w]
    ELSE [err |-> FALSE, panic |-> w.closed,
          fw |-> [w EXCEPT !.running = FALSE, !.cancelled = TRUE, !.closed = TRUE]]

\* FileWatcherListener.Start and Stop
ListenerStart(l) ==
    IF l.running THEN [err |-> TRUE, lsn |-> l]
    ELSE [err |-> FALSE, lsn |-> [l EXCEPT !.running = TRUE]]

ListenerStop(l) ==
    IF ~l.running THEN [err |-> TRUE, lsn |-> l]
    ELSE [err |-> FALSE, lsn |-> [l EXCEPT !.running = FALSE, !.cancelled = TRUE]]

\* --------------------------------------------- the lifecycle specification
\* Start and Stop of the watcher and of the listener, called in any order.

InitLife ==
    /\ fm = NewFileManager
    /\ disk = SiteBase
    /\ ops = 0
    /\ crashed = FALSE
    /\ mark = NoMark
    /\ fw = NewFileWatcher
    /\ lsn = NewListener
    /\ queue = << >>
    /\ rm = NewRouterManager
    /\ last = NoEvent
    /\ calls = 0
    /\ lastCall = NoCall
    /\ mu = Unlocked
    /\ threads = NoThreads
    /\ pm = Plugins

Called(op, root, err) ==
    /\ calls' = calls + 1
    /\ lastCall' = [op |-> op, root |-> root, err |-> err, fw |-> fw, lsn |-> lsn]

LifeWatcherStart ==
    /\ ~crashed /\ calls < MaxCalls
    /\ \E root \in StartRoots : \E r \in {WatcherStart(fw, root, disk)} :
          /\ fw' = r.fw
          /\ Called("fw.Start", root, r.err)
    /\ UNCHANGED <<mu, threads, pm, fm, disk, ops, crashed, mark, lsn, queue, rm, last>>

LifeWatcherStop ==
    /\ ~crashed /\ calls < MaxCalls
    /\ \E r \in {WatcherStop(fw)} :
          /\ fw' = r.fw
          /\ crashed' = r.panic
          /\ Called("fw.Stop", << >>, r.err)
    /\ UNCHANGED <<mu, threads, pm, fm, disk, ops, mark, lsn, queue, rm, last>>

LifeListenerStart ==
    /\ ~crashed /\ calls < MaxCalls
    /\ \E r \in {ListenerStart(lsn)} :
          /\ lsn' = r.lsn
          /\ Called("lsn.Start", << >>, r.err)
    /\ UNCHANGED <<mu, threads, pm, fm, disk, ops, crashed, mark, fw, queue, rm, last>>

LifeListenerStop ==
    /\ ~crashed /\ calls < MaxCalls
    /\ \E r \in {ListenerStop(lsn)} :
          /\ lsn' = r.lsn
          /\ Called("lsn.Stop", << >>, r.err)
    /\ UNCHANGED <<mu, threads, pm, fm, disk, ops, crashed, mark, fw, queue, rm, last>>

\* The site directory changes between two calls.
LifeDiskChange ==
    /\ ~crashed /\ ops < MaxDiskOps
    /\ ops' = ops + 1
    /\ \/ \E d \in disk.dirs \cap {LayoutDir, AssetsDir} : disk' = DiskMoveDirOut(disk, d)
       \/ BlogDir \notin disk.dirs /\ disk' = DiskMoveDirIn(disk, BlogDir, {})
    /\ UNCHANGED <<mu, threads, pm, fm, crashed, mark, fw, lsn, queue, rm, last, calls, lastCall>>

NextLife ==
    \/ LifeWatcherStart
    \/ LifeWatcherStop
    \/ LifeListenerStart
    \/ LifeListenerStop
    \/ LifeDiskChange

SpecLife == InitLife /\ [][NextLife]_vars

\* C5: once stop() has succeeded the watcher is terminal: no later call to
\* start(root) succeeds or makes isRunning() true again.
C5_StoppedWatcherIsTerminal == fw.cancelled => ~fw.running

\* C6: lifecycle calls in the wrong state are refused without changing
\* state: start on a running watcher or listener returns an error and it
\* stays running; stop on a watcher or listener that is not running returns
\* an error; start with an empty, non-existent or non-directory root
\* returns an error and leaves the watcher as it was, not running if it
\* was not running.
C6_WrongStateCallsRefused ==
    /\ (lastCall.op = "fw.Start" /\ lastCall.fw.running) =>
          lastCall.err /\ fw = lastCall.fw /\ fw.running
    /\ (lastCall.op = "lsn.Start" /\ lastCall.lsn.running) =>
          lastCall.err /\ lsn = lastCall.lsn /\ lsn.running
    /\ (lastCall.op = "fw.Stop" /\ ~lastCall.fw.running) =>
          lastCall.err /\ fw = lastCall.fw /\ ~crashed
    /\ (lastCall.op = "lsn.Stop" /\ ~lastCall.lsn.running) =>
          lastCall.err /\ lsn = lastCall.lsn
    /\ (lastCall.op = "fw.Start" /\ lastCall.root # SiteRoot) =>
          lastCall.err /\ fw = lastCall.fw

\* A second start of a running watcher on the site directory was refused,
\* at a time when the listener had been started and stopped.
C6_Witness ==
    /\ lastCall.op = "fw.Start"
    /\ lastCall.root = SiteRoot
    /\ lastCall.fw.running
    /\ lastCall.err
    /\ lsn.cancelled /\ ~lsn.running

\* ---------------------------------------------------------- RouterManager

\* The engine the HTTP server was given (rm.GetRouter() in Run), and the
\* engine a rebuild leaves in rm.router.
Handler == 1
Rebuilt == 2

RECURSIVE StripDotDot(_)
\* A rooted path has nothing above its root.
StripDotDot(segs) ==
    IF segs # << >> /\ segs[1] = ".." THEN StripDotDot(Tail(segs)) ELSE segs

\* normalizeRoute: filepath.Clean("/" + strings.TrimPrefix(route, "/")), an
\* error (<< >>) for the empty route.
NormalizeRoute(route) ==
    IF route = << >> THEN << >>
    ELSE LET c == StripDotDot(CleanFrom(SelectSeq(route, LAMBDA t : t # "/"), << >>))
         IN  IF c = << >> THEN <<"/">> ELSE Tokenize(c)

\* The routes of a File as RouterManager normalizes them.
NormalizedRoutes(routes) ==
    {NormalizeRoute(routes[i]) : i \in 1..Len(routes)} \ {<< >>}

RECURSIVE AddFileOverwriting(_, _, _)
\* An addFileUnsafe without the duplicate check: the last registration wins.
AddFileOverwriting(r, path, routes) ==
    IF routes = << >> THEN r
    ELSE LET n == NormalizeRoute(routes[1])
         IN  IF n = << >>
             THEN AddFileOverwriting(r, path, Tail(routes))
             ELSE The({AddFileOverwriting(r1, path, Tail(routes)) :
                       r1 \in {[r EXCEPT !.routes = MapPut(@, n, path),
                                         !.engines[r.router] = MapPut(@, n, path)]}})

RECURSIVE AddFileUnsafe(_, _, _)
\* RouterManager.addFileUnsafe: each route not yet taken goes to the route
\* map and, as a GET handler for the path, to the engine in rm.router.
AddFileUnsafe(r, path, routes) ==
    IF routes = << >> THEN r
    ELSE LET n == NormalizeRoute(routes[1])
         IN  IF n = << >> \/ n \in DOMAIN r.routes
             THEN AddFileUnsafe(r, path, Tail(routes))
             ELSE The({AddFileUnsafe(r1, path, Tail(routes)) :
                       r1 \in {[r EXCEPT !.routes = MapPut(@, n, path),
                                         !.engines[r.router] = MapPut(@, n, path)]}})

\* A rebuild whose new engine takes over the handlers of the engine it
\* replaces instead of the entries of the route map.
RebuildFromEngine(r) ==
    [r EXCEPT !.engines = <<r.engines[Handler], r.engines[r.router]>>, !.router = Rebuilt]

\* RouterManager.rebuildRouterUnsafe: a new engine with a handler for every
\* entry of the route map replaces rm.router.
RebuildRouterUnsafe(r) ==
    [r EXCEPT !.engines = <<r.engines[Handler], r.routes>>, !.router = Rebuilt]

\* RouterManager.RemoveFile
RouterRemoveFile(r, path) ==
    LET gone == {pat \in DOMAIN r.routes : r.routes[pat] = path}
    IN  IF gone = {} THEN [err |-> TRUE, rm |-> r]
        ELSE [err |-> FALSE,
              rm |-> RebuildRouterUnsafe(
                         [r EXCEPT !.routes = [x \in DOMAIN @ \ gone |-> @[x]]])]

RECURSIVE InitRoutes(_, _, _)
InitRoutes(r, st, S) ==
    IF S = {} THEN {r}
    ELSE UNION {UNION {InitRoutes(r1, st, S \ {p}) :
                       r1 \in {AddFileUnsafe(r, p, st.objs[st.files[p]].routes)}}
                : p \in S}

\* RouterManager.InitializeRouter: a new engine with the routes of the Files
\* under content/, taken in any order GetAllFiles may list them.
InitializeRouter(st) ==
    InitRoutes([routes |-> EmptyMap, router |-> Handler, engines |-> <<EmptyMap>>,
                fmSet |-> TRUE], st,
               {p \in DOMAIN st.files : UnderContent(p)})

\* An HTTP response: status, body (NoContent for an empty body), the
\* Content-Type and the Location header.
Response(status, body, ctype, location) ==
    [status |-> status, content |-> body, ctype |-> ctype, location |-> location]

\* A handler that serves a File without looking at its RedirectUrl.
HandlerWithoutRedirect(r, st, filePath) ==
    IF ~r.fmSet THEN Response(500, NoContent, "", "")
    ELSE IF GetFile(st, filePath) = Nil THEN Response(404, NoContent, "", "")
    ELSE Response(200, st.objs[GetFile(st, filePath)].content,
                  IF st.objs[GetFile(st, filePath)].mime = ""
                  THEN "application/octet-stream"
                  ELSE st.objs[GetFile(st, filePath)].mime, "")

\* The handler RouterManager.makeFileHandler makes for filePath, run
\* against the FileManager as it is when the request arrives.
makeFileHandler(r, st, filePath) ==
    IF ~r.fmSet THEN Response(500, NoContent, "", "")
    ELSE LET file == GetFile(st, filePath)
         IN  IF file = Nil THEN Response(404, NoContent, "", "")
             ELSE IF st.objs[file].redirect # ""
                  THEN Response(302, NoContent, "", st.objs[file].redirect)
             ELSE Response(200, st.objs[file].content,
                           IF st.objs[file].mime = "" THEN "application/octet-stream"
                           ELSE st.objs[file].mime,
                           "")

\* A GET request dispatched by the engine e: gin answers 404 when no
\* pattern matches.
Dispatch(e, r, st, route) ==
    IF route \notin DOMAIN e THEN Response(404, NoContent, "", "")
    ELSE makeFileHandler(r, st, e[route])

\* A GET request through the engine the HTTP server holds.
ServeHTTP(r, st, route) == Dispatch(r.engines[Handler], r, st, route)

\* ------------------------------------------------------ watcher dispatch

\* A send that puts the event in front of the waiting ones.
SendToFront(q, ev) == IF Len(q) < ChanCap THEN <<ev>> \o q ELSE q

\* FileWatcher.sendEvent: the event is dropped when the channel is full.
sendEvent(q, ev) == IF Len(q) < ChanCap THEN Append(q, ev) ELSE q

\* FileWatcher.handleFileCreated, handleFileModified and handleFileDeleted
\* for the site-relative path p, with the disk as os.Stat finds it: os.Stat
\* follows a symlink, so the FileInfo it returns never has os.ModeSymlink.
handleFileCreated(w, q, p, dsk) ==
    IF Stat(dsk, w.rootPath \o p) = "error" \/ IgnoreFile(Base(p), FALSE) THEN q
    ELSE IF Stat(dsk, w.rootPath \o p) = "dir"
         THEN sendEvent(q, [type |-> "DirCreated", path |-> p])
         ELSE sendEvent(q, [type |-> "FileCreated", path |-> p])

handleFileModified(w, q, p, dsk) ==
    IF Stat(dsk, w.rootPath \o p) # "file" \/ IgnoreFile(Base(p), FALSE) THEN q
    ELSE sendEvent(q, [type |-> "FileModified", path |-> p])

handleFileDeleted(w, q, p) ==
    IF p \in w.watched THEN sendEvent(q, [type |-> "DirDeleted", path |-> p])
    ELSE sendEvent(q, [type |-> "FileDeleted", path |-> p])

\* FileWatcher.processWatcherEvents for one fsnotify event on p: fsnotify
\* reports changes in the directories it watches, while the watcher runs.
processWatcherEvents(w, q, op, p, dsk) ==
    IF ~w.running \/ SubSeq(p, 1, Len(p) - 1) \notin w.notify THEN q
    ELSE CASE op = "Create" -> handleFileCreated(w, q, p, dsk)
           [] op = "Write" -> handleFileModified(w, q, p, dsk)
           [] op = "Remove" -> handleFileDeleted(w, q, p)
           [] op = "Rename" -> handleFileDeleted(w, q, p)

\* ------------------------------------------------------ listener handlers

\* FileWatcherListener.affectsRoutes and needsRouterRebuild
affectsRoutes(path) == HasPrefix(JoinChars(path), ContentSlash)

\* A listener that never asks for a rebuild.
NeverRebuild(path, isDirectory) == FALSE

needsRouterRebuild(path, isDirectory) ==
    IF isDirectory THEN HasPrefix(JoinChars(path), ContentSlash) ELSE affectsRoutes(path)

\* What a handler leaves behind: it panicked, or it returned (with an error
\* or not) the FileManager, RouterManager and FileWatcher as it left them.
Outcome(c, err, rebuilt, made) ==
    [panic |-> FALSE, err |-> err, rebuilt |-> rebuilt, made |-> made,
     fm |-> c.fm, rm |-> c.rm, fw |-> c.fw]
Panicked(c) == [Outcome(c, FALSE, FALSE, {}) EXCEPT !.panic = TRUE]

\* FileWatcherListener.HandleFileModified
HandleFileModified(c, ev, dsk) ==
    UNION {IF a.panic THEN {Panicked(c)}
           ELSE {Outcome([c EXCEPT !.fm = st], FALSE, FALSE, {})
                 : st \in ProcessUpdatedFiles(a.st, dsk)}
           : a \in AddFile(c.fm, ev.path)}

\* FileWatcherListener.HandleFileCreated: the result of the pipeline gets
\* its routes registered; it is not stored in the path index.
HandleFileCreated(c, ev, dsk) ==
    IF Stat(dsk, c.fw.rootPath \o ev.path) = "error" THEN {Outcome(c, TRUE, FALSE, {})}
    ELSE UNION {UNION {
           IF a.panic THEN {Panicked(c)}
           ELSE {LET processed == st.objs[Len(st.objs)]
                 IN  Outcome([c EXCEPT !.fm = st,
                                       !.rm = IF affectsRoutes(processed.path)
                                              THEN AddFileUnsafe(@, processed.path, processed.routes)
                                              ELSE @],
                             FALSE, FALSE, NormalizedRoutes(processed.routes))
                 : st \in {Process(a.st, a.st.files[Clean(ev.path)], dsk)}}
           : a \in AddFile(walked, ev.path)}
         : walked \in {IF Dir(ev.path) # DotPath /\ Dir(ev.path) # << >>
                       THEN WalkDirectory(c.fm, Dir(ev.path), dsk).st
                       ELSE c.fm}}

\* FileWatcherListener.HandleFileDeleted
HandleFileDeleted(c, ev, dsk) ==
    UNION {IF a.panic THEN {Panicked(c)}
           ELSE UNION {{Outcome([c EXCEPT !.fm = st, !.rm = rr.rm], FALSE, ~rr.err, {})
                        : st \in ProcessUpdatedFiles(a.st, dsk)}
                       : rr \in {IF affectsRoutes(ev.path)
                                 THEN RouterRemoveFile(c.rm, ev.path)
                                 ELSE [err |-> TRUE, rm |-> c.rm]}}
           : a \in RemoveFile(c.fm, ev.path)}

\* FileWatcherListener.HandleDirectoryCreated
HandleDirectoryCreated(c, ev, dsk) ==
    UNION {UNION {
        IF ~w.ok THEN {Outcome([c EXCEPT !.fw = fw2], TRUE, FALSE, {})}
        ELSE {Outcome([c EXCEPT !.fw = fw2, !.fm = st,
                                !.rm = IF needsRouterRebuild(ev.path, TRUE)
                                       THEN RebuildRouterUnsafe(@) ELSE @],
                      FALSE, needsRouterRebuild(ev.path, TRUE),
                      UNION {NormalizedRoutes(st.objs[st.files[p]].routes)
                             : p \in {x \in DOMAIN st.files : Below(x, ev.path)}})
              : st \in ProcessUpdatedFiles(w.st, dsk)}
        : w \in {WalkDirectory(c.fm, ev.path, dsk)}}
      : fw2 \in {AddDirectoryWatch(c.fw, ev.path, dsk)}}

\* FileWatcherListener.HandleDirectoryDeleted
HandleDirectoryDeleted(c, ev, dsk) ==
    UNION {UNION {
        IF a.panic THEN {Panicked(c)}
        ELSE {Outcome([c EXCEPT !.fw = fw2, !.fm = st,
                                !.rm = IF needsRouterRebuild(ev.path, TRUE)
                                       THEN RebuildRouterUnsafe(@) ELSE @],
                      FALSE, needsRouterRebuild(ev.path, TRUE), {})
              : st \in ProcessUpdatedFiles(a.st, dsk)}
        : a \in RemoveDirectory(c.fm, ev.path)}
      : fw2 \in {RemoveDirectoryWatch(c.fw, ev.path)}}

\* --------------------------------------------------- the site specification
\* The server after main and Run have started it: the graph walked and
\* processed, the router initialized and given to the HTTP server, watcher
\* and listener running.  The site directory changes, the watcher turns
\* the changes into events and the listener handles them one by one.

\* initializeFileManager and initializeAndRunPlugins of main.
Startup(dsk) ==
    UNION {UNION {ProcessAllFiles(w2.st, dsk)
                  : w2 \in {WalkDirectory(w1.st, LayoutDir, dsk)}}
           : w1 \in {WalkDirectory(NewFileManager, ContentDir, dsk)}}

InitSite ==
    /\ disk \in {SiteBase, SiteBlog}
    /\ fm \in {Compact(st) : st \in Startup(disk)}
    /\ fw = WatcherStart(NewFileWatcher, SiteRoot, disk).fw
    /\ rm \in InitializeRouter(fm)
    /\ lsn = ListenerStart(NewListener).lsn
    /\ queue = << >>
    /\ ops = 0
    /\ crashed = FALSE
    /\ mark = NoMark
    /\ last = NoEvent
    /\ calls = 0
    /\ lastCall = NoCall
    /\ mu = Unlocked
    /\ threads = NoThreads
    /\ pm = Plugins

\* The files and the directory that come and go while the server runs.
SiteFiles == {FileA, FileAmd, FileP, HeaderPath, FileCss}

SiteChanged(dsk, op, p) ==
    /\ ops < MaxDiskOps
    /\ ops' = ops + 1
    /\ disk' = dsk
    /\ queue' = processWatcherEvents(fw, queue, op, p, dsk)
    /\ UNCHANGED <<mu, threads, pm, fm, crashed, mark, lsn, rm, last, calls, lastCall>>

SiteCreateFile ==
    /\ ~crashed
    /\ \E p \in SiteFiles \ disk.files :
          /\ Dir(p) \in disk.dirs
          /\ SiteChanged(DiskCreateFile(disk, p), "Create", p)
    /\ fw' = fw

SiteWriteFile ==
    /\ ~crashed
    /\ \E p \in SiteFiles \cap disk.files :
          SiteChanged(DiskWriteFile(disk, p, p \in disk.ign), "Write", p)
    /\ fw' = fw

SiteDeleteFile ==
    /\ ~crashed
    /\ \E p \in SiteFiles \cap disk.files :
          SiteChanged(DiskDeleteFile(disk, p), "Remove", p)
    /\ fw' = fw

\* A directory with its files is moved into the site: one Create event.
SiteMoveDirIn ==
    /\ ~crashed
    /\ BlogDir \notin disk.dirs
    /\ \E fs \in SUBSET {FileP} :
          SiteChanged(DiskMoveDirIn(disk, BlogDir, fs), "Create", BlogDir)
    /\ fw' = fw

\* A directory is moved out of the site: one Rename event, and fsnotify
\* drops its watches on what is gone.
SiteMoveDirOut ==
    /\ ~crashed
    /\ BlogDir \in disk.dirs
    /\ SiteChanged(DiskMoveDirOut(disk, BlogDir), "Rename", BlogDir)
    /\ fw' = [fw EXCEPT !.notify = {d \in @ : ~Below(d, BlogDir)}]

\* FileWatcherListener.processEvents takes the next event and calls its
\* handler; a panic in the handler is not recovered.
Handled(ev, outs) ==
    /\ ~crashed
    /\ lsn.running
    /\ queue # << >>
    /\ \E out \in outs :
          IF out.panic
          THEN /\ crashed' = TRUE
               /\ UNCHANGED <<mu, threads, pm, fm, rm, fw, queue, last>>
          ELSE \E c \in {Compact(out.fm)} :
                 /\ Len(c.objs) <= MaxObjs
                 /\ fm' = c
                 /\ rm' = out.rm
                 /\ fw' = out.fw
                 /\ queue' = Tail(queue)
                 /\ crashed' = FALSE
                 /\ last' = [type |-> ev.type, path |-> ev.path, err |-> out.err,
                             rebuilt |-> out.rebuilt, made |-> out.made,
                             routes |-> rm.routes]
    /\ UNCHANGED <<mu, threads, pm, disk, ops, mark, lsn, calls, lastCall>>

Ctx == [fm |-> fm, rm |-> rm, fw |-> fw]

SiteFileCreated ==
    /\ queue # << >> /\ Head(queue).type = "FileCreated"
    /\ Handled(Head(queue), HandleFileCreated(Ctx, Head(queue), disk))

SiteFileModified ==
    /\ queue # << >> /\ Head(queue).type = "FileModified"
    /\ Handled(Head(queue), HandleFileModified(Ctx, Head(queue), disk))

SiteFileDeleted ==
    /\ queue # << >> /\ Head(queue).type = "FileDeleted"
    /\ Handled(Head(queue), HandleFileDeleted(Ctx, Head(queue), disk))

SiteDirCreated ==
    /\ queue # << >> /\ Head(queue).type = "DirCreated"
    /\ Handled(Head(queue), HandleDirectoryCreated(Ctx, Head(queue), disk))

SiteDirDeleted ==
    /\ queue # << >> /\ Head(queue).type = "DirDeleted"
    /\ Handled(Head(queue), HandleDirectoryDeleted(Ctx, Head(queue), disk))

NextSite ==
    \/ SiteCreateFile
    \/ SiteWriteFile
    \/ SiteDeleteFile
    \/ SiteMoveDirIn
    \/ SiteMoveDirOut
    \/ SiteFileCreated
    \/ SiteFileModified
    \/ SiteFileDeleted
    \/ SiteDirCreated
    \/ SiteDirDeleted

SpecSite == InitSite /\ [][NextSite]_vars

\* The routes that targeted the path of the last event before it was handled.
FormerRoutes == {r \in DOMAIN last.routes : last.routes[r] = last.path}

\* C4: the listener's consumer loop is never terminated by an event: the
\* listener stays running and the process does not abort.
C4_ListenerSurvivesEveryEvent == ~crashed /\ lsn.running

\* C7: after the listener has handled a FileDeleted event for a path p under
\* content/ that had registered routes, getFile(p) is absent, no entry of
\* the route table targets p, and a request on a former route of p is
\* answered 404.
C7_DeletedFileIsGone ==
    (last.type = "FileDeleted" /\ affectsRoutes(last.path) /\ FormerRoutes # {}) =>
        /\ GetFile(fm, last.path) = Nil
        /\ \A r \in DOMAIN rm.routes : rm.routes[r] # last.path
        /\ \A r \in FormerRoutes : ServeHTTP(rm, fm, r).status = 404

\* C8: after the listener has handled a creation event (FileCreated for a
\* file under content/, DirCreated for a directory under content/ with
\* files), every normalized route of each created content file that was not
\* already taken is matched by the router that serves HTTP.
C8_CreatedRoutesAreServed ==
    (/\ last.type \in {"FileCreated", "DirCreated"}
     /\ affectsRoutes(last.path)
     /\ ~last.err) =>
        \A r \in last.made \ DOMAIN last.routes : r \in DOMAIN rm.engines[Handler]

\* C9: whenever the listener is idle (every emitted event handled), every
\* route of the route table targets a File that is in the graph.
C9_NoDanglingRouteWhenIdle ==
    (queue = << >> /\ ~crashed) =>
        \A r \in DOMAIN rm.routes : GetFile(fm, rm.routes[r]) # Nil

\* The parts of C10 that do not concern directory events: every route entry
\* targets a path under content/; an event whose path is not under content/
\* leaves the route map unchanged and triggers no rebuild; a FileCreated
\* under content/ registers the routes of the file without a rebuild.
OnlyContentAffectsRoutes ==
    /\ \A r \in DOMAIN rm.routes : HasPrefix(JoinChars(rm.routes[r]), ContentSlash)
    /\ (last.type # "none" /\ ~HasPrefix(JoinChars(last.path), ContentSlash)) =>
          /\ rm.routes = last.routes
          /\ ~last.rebuilt
    /\ (last.type = "FileCreated" /\ HasPrefix(JoinChars(last.path), ContentSlash)) =>
          /\ ~last.rebuilt
          /\ DOMAIN rm.routes = DOMAIN last.routes \cup last.made
          /\ \A r \in DOMAIN rm.routes :
                rm.routes[r] = IF r \in DOMAIN last.routes THEN last.routes[r] ELSE last.path

ServeDisk == [SiteBase EXCEPT !.files = @ \cup {FileAmd}]
ServeFiles == {FileA, FileAmd}

InitServe ==
    /\ disk = ServeDisk
    /\ fm \in {Compact(st) : st \in Startup(ServeDisk)}
    /\ rm = NewRouterManager
    /\ ops = 0
    /\ crashed = FALSE
    /\ mark = NoMark
    /\ fw = NewFileWatcher
    /\ lsn = NewListener
    /\ queue = << >>
    /\ last = NoEvent
    /\ calls = 0
    /\ lastCall = NoCall
    /\ mu = Unlocked
    /\ threads = NoThreads
    /\ pm = Plugins

\* What a request found and what it was answered.
Requested(route, target, resp) ==
    LET file == GetFile(fm, target)
    IN  [type |-> "request", route |-> route, target |-> target,
         fmSet |-> rm.fmSet, present |-> file # Nil,
         redirect |-> IF file = Nil THEN "" ELSE fm.objs[file].redirect,
         content |-> IF file = Nil THEN NoContent ELSE fm.objs[file].content,
         mime |-> IF file = Nil THEN "" ELSE fm.objs[file].mime,
         resp |-> resp]

\* rm.InitializeRouter(ctx)
ServeInitialize ==
    /\ rm.router = Nil
    /\ rm' \in InitializeRouter(fm)
    /\ UNCHANGED <<mu, threads, pm, fm, disk, ops, crashed, mark, fw, lsn, queue, last, calls, lastCall>>

\* file.Content = ..; file.Metadata.MimeType = ..; file.Metadata.RedirectUrl = ..
ServeSetFile ==
    /\ calls < MaxServeCalls
    /\ \E p \in DOMAIN fm.files \cap ServeFiles :
       \E c \in {NoContent, RawContent, HtmlContent} :
       \E m \in {"", "text/html"} :
       \E u \in {"", RedirectTarget} :
          fm' = [fm EXCEPT !.objs[fm.files[p]] =
                    [@ EXCEPT !.content = c, !.mime = m, !.redirect = u]]
    /\ calls' = calls + 1
    /\ UNCHANGED <<mu, threads, pm, disk, ops, crashed, mark, fw, lsn, queue, rm, last, lastCall>>

\* The file is rewritten on disk and the listener handles the FileModified event.
ServeModified ==
    /\ calls < MaxServeCalls
    /\ \E p \in DOMAIN fm.files \cap ServeFiles :
       \E out \in HandleFileModified(Ctx, [type |-> "FileModified", path |-> p], disk) :
          /\ ~out.panic
          /\ fm' = Compact(out.fm)
    /\ calls' = calls + 1
    /\ UNCHANGED <<mu, threads, pm, disk, ops, crashed, mark, fw, lsn, queue, rm, last, lastCall>>

\* fm.RemoveFile(p): the routes of p stay registered.
ServeRemoveFile ==
    /\ calls < MaxServeCalls
    /\ \E p \in DOMAIN fm.files \cap ServeFiles : \E r \in RemoveFile(fm, p) :
          /\ ~r.panic
          /\ fm' = Compact(r.st)
    /\ calls' = calls + 1
    /\ UNCHANGED <<mu, threads, pm, disk, ops, crashed, mark, fw, lsn, queue, rm, last, lastCall>>

\* A GET request on a registered pattern.
ServeRequest ==
    /\ rm.router # Nil
    /\ \E route \in DOMAIN rm.engines[Handler] :
          last' = Requested(route, rm.engines[Handler][route], ServeHTTP(rm, fm, route))
    /\ UNCHANGED <<mu, threads, pm, fm, disk, ops, crashed, mark, fw, lsn, queue, rm, calls, lastCall>>

\* The handler rm.makeFileHandler(p) made and called directly.
ServeHandler ==
    /\ \E p \in ServeFiles :
          last' = Requested(<< >>, p, makeFileHandler(rm, fm, p))
    /\ UNCHANGED <<mu, threads, pm, fm, disk, ops, crashed, mark, fw, lsn, queue, rm, calls, lastCall>>

NextServe ==
    \/ ServeInitialize
    \/ ServeSetFile
    \/ ServeModified
    \/ ServeRemoveFile
    \/ ServeRequest
    \/ ServeHandler

SpecServe == InitServe /\ [][NextServe]_vars

\* C11: a request on a registered pattern is answered from the state of the
\* FileManager at request time: 500 if the FileManager is unset, 404 if the
\* target is not in the graph, 302 to redirectUrl if it is non-empty,
\* otherwise 200 with the current content of the File as body and its
\* mimeType (application/octet-stream when empty) as Content-Type.
C11_AnsweredFromCurrentState ==
    last.type = "request" =>
        /\ ~last.fmSet => last.resp.status = 500
        /\ (last.fmSet /\ ~last.present) => last.resp.status = 404
        /\ (last.fmSet /\ last.present /\ last.redirect # "") =>
              last.resp.status = 302 /\ last.resp.location = last.redirect
        /\ (last.fmSet /\ last.present /\ last.redirect = "") =>
              /\ last.resp.status = 200
              /\ last.resp.content = last.content
              /\ last.resp.ctype = IF last.mime = "" THEN "application/octet-stream"
                                    ELSE last.mime

\* A request on a registered pattern was answered 200 with content that was
\* stored in the File after the router had been initialized.
C11_Witness ==
    /\ last.type = "request"
    /\ last.route # << >>
    /\ last.resp.status = 200
    /\ last.resp.content = RawContent
    /\ last.resp.ctype = "application/octet-stream"

\* C12: a request on a registered pattern whose target File is in the graph
\* with no redirectUrl and with content absent is answered 404.
C12_AbsentContentIs404 ==
    (/\ last.type = "request"
     /\ last.fmSet /\ last.present
     /\ last.redirect = "" /\ last.content = NoContent) =>
        last.resp.status = 404

\* ------------------------------------------- RouterManager: the route table

\* An AddRoute that replaces the target of a registered pattern and still
\* reports the duplicate.
AddRouteReplacing(r, pattern, filePath) ==
    LET n == NormalizeRoute(pattern)
    IN  IF n = << >> THEN [err |-> TRUE, rm |-> r]
        ELSE [err |-> n \in DOMAIN r.routes,
              rm |-> [r EXCEPT !.routes = MapPut(@, n, filePath),
                               !.engines[r.router] = MapPut(@, n, filePath)]]

\* RouterManager.AddRoute: the normalized pattern goes to the engine in
\* rm.router and to the route map unless it is invalid or taken.
AddRoute(r, pattern, filePath) ==
    LET n == NormalizeRoute(pattern)
    IN  IF n = << >> THEN [err |-> TRUE, rm |-> r]
        ELSE IF n \in DOMAIN r.routes THEN [err |-> TRUE, rm |-> r]
        ELSE [err |-> FALSE,
              rm |-> [r EXCEPT !.engines[r.router] = MapPut(@, n, filePath),
                               !.routes = MapPut(@, n, filePath)]]

\* A RemoveRoute that only deletes the entry of the route map.
RemoveRouteFromMapOnly(r, pattern) ==
    LET n == NormalizeRoute(pattern)
    IN  IF n = << >> \/ n \notin DOMAIN r.routes THEN [err |-> TRUE, rm |-> r]
        ELSE [err |-> FALSE, rm |-> [r EXCEPT !.routes = MapDel(@, n)]]

\* RouterManager.RemoveRoute: the entry leaves the route map and the router
\* is rebuilt from what is left.
RemoveRoute(r, pattern) ==
    LET n == NormalizeRoute(pattern)
    IN  IF n = << >> THEN [err |-> TRUE, rm |-> r]
        ELSE IF n \notin DOMAIN r.routes THEN [err |-> TRUE, rm |-> r]
        ELSE [err |-> FALSE,
              rm |-> RebuildRouterUnsafe([r EXCEPT !.routes = MapDel(@, n)])]

RECURSIVE Orders(_)
\* The orders in which a range over a Go map may list the keys S.
Orders(S) ==
    IF S = {} THEN {<< >>}
    ELSE UNION {{<<p>> \o o : o \in Orders(S \ {p})} : p \in S}

RECURSIVE AddFilesInOrder(_, _, _)
\* The loop of InitializeRouter over the Files in the order GetAllFiles lists them.
AddFilesInOrder(r, st, order) ==
    IF order = << >> THEN r
    ELSE The({AddFilesInOrder(r1, st, Tail(order)) :
              r1 \in {AddFileUnsafe(r, order[1], st.objs[st.files[order[1]]].routes)}})

\* RouterManager.InitializeRouter on a manager that may hold a router: a new
\* engine, an empty route map, then the Files under content/ in order.
InitializeInOrder(r, st, order) ==
    AddFilesInOrder(
        [routes |-> EmptyMap,
         router |-> IF r.router = Nil THEN Handler ELSE Rebuilt,
         engines |-> IF r.router = Nil THEN <<EmptyMap>>
                     ELSE <<r.engines[Handler], EmptyMap>>,
         fmSet |-> TRUE],
        st, order)

\* The patterns the current router (rm.GetRouter()) serves.
Served(r) == IF r.router = Nil THEN {} ELSE DOMAIN r.engines[r.router]

\* ------------------------------------------------- the router specification
\* The operations of the RouterManager called in any order on a graph that
\* holds content/a.html and content/a.md, whose routes share the pattern /a.

RoutePatterns == {<< >>, <<"/", "a">>, <<"a">>, <<"/", "/", "x">>, <<"/", "x">>, <<"/", "a.html">>}

NoRouterCall ==
    [op |-> "none", pat |-> << >>, path |-> << >>, err |-> FALSE, order |-> << >>,
     before |-> NewRouterManager,
     prev |-> [op |-> "none", pat |-> << >>, err |-> FALSE, before |-> NewRouterManager]]

InitRouter ==
    /\ disk = ServeDisk
    /\ fm \in {Compact(st) : st \in Startup(ServeDisk)}
    /\ rm = NewRouterManager
    /\ ops = 0
    /\ crashed = FALSE
    /\ mark = NoMark
    /\ fw = NewFileWatcher
    /\ lsn = NewListener
    /\ queue = << >>
    /\ last = NoEvent
    /\ calls = 0
    /\ lastCall = NoRouterCall
    /\ mu = Unlocked
    /\ threads = NoThreads
    /\ pm = Plugins

\* The call made, the manager it was made on and the call before it.
RouterCalled(op, pat, path, err, order) ==
    /\ calls' = calls + 1
    /\ lastCall' = [op |-> op, pat |-> pat, path |-> path, err |-> err, order |-> order,
                    before |-> rm,
                    prev |-> [op |-> lastCall.op, pat |-> lastCall.pat,
                              err |-> lastCall.err, before |-> lastCall.before]]

\* router.GET on a nil *gin.Engine: the call panics.
RouterPanic ==
    /\ crashed' = TRUE
    /\ UNCHANGED <<mu, threads, pm, fm, disk, ops, mark, fw, lsn, queue, rm, last, calls, lastCall>>

RouterInitialize ==
    /\ ~crashed /\ calls < MaxRouterCalls
    /\ \E order \in Orders({p \in DOMAIN fm.files : UnderContent(p)}) :
          /\ rm' = InitializeInOrder(rm, fm, order)
          /\ RouterCalled("InitializeRouter", << >>, << >>, FALSE, order)
    /\ UNCHANGED <<mu, threads, pm, fm, disk, ops, crashed, mark, fw, lsn, queue, last>>

RouterAddRoute ==
    /\ ~crashed /\ calls < MaxRouterCalls
    /\ \E pat \in RoutePatterns : \E p \in ServeFiles :
          IF rm.router = Nil /\ NormalizeRoute(pat) # << >>
          THEN RouterPanic
          ELSE \E r \in {AddRoute(rm, pat, p)} :
                  /\ rm' = r.rm
                  /\ RouterCalled("AddRoute", pat, p, r.err, << >>)
                  /\ UNCHANGED <<mu, threads, pm, fm, disk, ops, crashed, mark, fw, lsn, queue, last>>

RouterAddFile ==
    /\ ~crashed /\ calls < MaxRouterCalls
    /\ \E p \in DOMAIN fm.files \cap ServeFiles :
          IF rm.router = Nil /\ NormalizedRoutes(fm.objs[fm.files[p]].routes) # {}
          THEN RouterPanic
          ELSE /\ rm' = AddFileUnsafe(rm, p, fm.objs[fm.files[p]].routes)
               /\ RouterCalled("AddFile", << >>, p, FALSE, << >>)
               /\ UNCHANGED <<mu, threads, pm, fm, disk, ops, crashed, mark, fw, lsn, queue, last>>

RouterRemoveRoute ==
    /\ ~crashed /\ calls < MaxRouterCalls
    /\ \E pat \in RoutePatterns : \E r \in {RemoveRoute(rm, pat)} :
          /\ rm' = r.rm
          /\ RouterCalled("RemoveRoute", pat, << >>, r.err, << >>)
    /\ UNCHANGED <<mu, threads, pm, fm, disk, ops, crashed, mark, fw, lsn, queue, last>>

RouterRemoveFileCall ==
    /\ ~crashed /\ calls < MaxRouterCalls
    /\ \E p \in ServeFiles : \E r \in {RouterRemoveFile(rm, p)} :
          /\ rm' = r.rm
          /\ RouterCalled("RemoveFile", << >>, p, r.err, << >>)
    /\ UNCHANGED <<mu, threads, pm, fm, disk, ops, crashed, mark, fw, lsn, queue, last>>

NextRouter ==
    \/ RouterInitialize
    \/ RouterAddRoute
    \/ RouterAddFile
    \/ RouterRemoveRoute
    \/ RouterRemoveFileCall

SpecRouter == InitRouter /\ [][NextRouter]_vars

\* The first File of an order that has the pattern among its normalized routes.
FirstWith(st, order, pat) ==
    LET has == {i \in 1..Len(order) :
                   pat \in NormalizedRoutes(st.objs[st.files[order[i]]].routes)}
    IN  order[CHOOSE i \in has : \A j \in has : i <= j]

\* C13: route patterns are unique and the first registration wins: every
\* pattern of the table is a normalized pattern with one target; initialize,
\* which starts from the empty table, gives each pattern to the first File
\* that has it; addFile and every other call leave the target of a pattern
\* that stays registered as it was.
C13_FirstRegistrationWins ==
    /\ \A pat \in DOMAIN rm.routes : NormalizeRoute(pat) = pat
    /\ lastCall.op = "InitializeRouter" =>
          \A pat \in UNION {NormalizedRoutes(fm.objs[fm.files[lastCall.order[i]]].routes) :
                             i \in 1..Len(lastCall.order)} :
             /\ pat \in DOMAIN rm.routes
             /\ rm.routes[pat] = FirstWith(fm, lastCall.order, pat)
    /\ lastCall.op = "AddFile" =>
          \A pat \in DOMAIN lastCall.before.routes :
             pat \in DOMAIN rm.routes /\ rm.routes[pat] = lastCall.before.routes[pat]
    /\ lastCall.op \notin {"none", "InitializeRouter"} =>
          \A pat \in DOMAIN lastCall.before.routes \cap DOMAIN rm.routes :
             rm.routes[pat] = lastCall.before.routes[pat]

\* addFile was called for a File whose pattern /a another File holds: the
\* pattern kept its target and the File got its other route.
C13_Witness ==
    /\ lastCall.op = "AddFile"
    /\ <<"/", "a">> \in DOMAIN lastCall.before.routes
    /\ lastCall.before.routes[<<"/", "a">>] # lastCall.path
    /\ DOMAIN rm.routes # DOMAIN lastCall.before.routes

\* C14: a failing call leaves the route table as it was: addRoute with an
\* empty or an already registered pattern, removeRoute of a pattern that is
\* not registered and removeFile of a path without routes fail, and after
\* each the route map and the current router are those before the call.
C14_FailingCallsChangeNothing ==
    /\ (lastCall.op = "AddRoute" /\ lastCall.pat = << >>) => lastCall.err
    /\ (lastCall.op = "AddRoute"
          /\ NormalizeRoute(lastCall.pat) \in DOMAIN lastCall.before.routes) => lastCall.err
    /\ (lastCall.op = "RemoveRoute"
          /\ NormalizeRoute(lastCall.pat) \notin DOMAIN lastCall.before.routes) => lastCall.err
    /\ (lastCall.op = "RemoveFile"
          /\ \A pat \in DOMAIN lastCall.before.routes :
                lastCall.before.routes[pat] # lastCall.path) => lastCall.err
    /\ lastCall.err =>
          /\ rm.routes = lastCall.before.routes
          /\ rm.router = lastCall.before.router
          /\ rm.engines = lastCall.before.engines

\* addRoute failed for a pattern that another path holds after normalization.
C14_Witness ==
    /\ lastCall.op = "AddRoute" /\ lastCall.err
    /\ lastCall.pat = <<"a">>
    /\ rm.routes[<<"/", "a">>] # lastCall.path

\* C15: for a pattern that is not registered, addRoute followed by
\* removeRoute of the same pattern restores the route map and the set of
\* patterns the current router serves; a request on the pattern then gets
\* 404 and addRoute of the pattern succeeds for any path.
C15_AddThenRemoveRestores ==
    (/\ lastCall.op = "RemoveRoute" /\ ~lastCall.err
     /\ lastCall.prev.op = "AddRoute" /\ ~lastCall.prev.err
     /\ NormalizeRoute(lastCall.prev.pat) = NormalizeRoute(lastCall.pat)) =>
        /\ rm.routes = lastCall.prev.before.routes
        /\ Served(rm) = Served(lastCall.prev.before)
        /\ Dispatch(rm.engines[rm.router], rm, fm, NormalizeRoute(lastCall.pat)).status = 404
        /\ \A p2 \in ServeFiles : ~AddRoute(rm, lastCall.pat, p2).err

\* A route was added under one spelling of the pattern and removed under
\* another, in a table that held other routes.
C15_Witness ==
    /\ lastCall.op = "RemoveRoute" /\ ~lastCall.err
    /\ lastCall.prev.op = "AddRoute" /\ ~lastCall.prev.err
    /\ lastCall.prev.pat = <<"/", "/", "x">> /\ lastCall.pat = <<"/", "x">>
    /\ rm.routes # EmptyMap

\* ------------------------------------------ PluginManager: the plugin list

\* A registration that appends and does not sort.
RegisterWithoutSort(plugins, plugin) == {Append(plugins, plugin)}

\* PluginManager.RegisterPlugin: the plugin is appended and the list sorted
\* by priority with sort.Slice, which promises no order among plugins of
\* equal priority.
RegisterPlugin(plugins, plugin) ==
    LET all == Append(plugins, plugin)
        n == Len(all)
    IN  {s \in {[i \in 1..n |-> all[f[i]]] : f \in Permutations(1..n)} :
            \A i \in 1..n : \A j \in 1..n : i < j => s[i].priority <= s[j].priority}

Digits == <<"0", "1", "2", "3", "4", "5", "6", "7", "8", "9">>

RECURSIVE Decimal(_)
\* fmt.Sprintf("%d", n), character by character
Decimal(n) ==
    IF n < 0 THEN <<"-">> \o Decimal(0 - n)
    ELSE IF n < 10 THEN <<Digits[n + 1]>>
    ELSE Decimal(n \div 10) \o <<Digits[(n % 10) + 1]>>

\* PluginManager.ListPlugins: nil for the empty list, else one string per
\* plugin, given by the pieces written to the builder.
ListPlugins(plugins) ==
    IF plugins = << >> THEN << >>
    ELSE [i \in 1..Len(plugins) |->
            <<plugins[i].name, " (priority: ">> \o Decimal(plugins[i].priority) \o <<")">>]

\* ------------------------------------------------- the plugin specification
\* mockPlugins registered in any order with any priorities, and files of
\* the graph run through the pipeline of the registered plugins.

\* Plugins registered in one run of the plugin specification.
MaxPlugins == 3

PluginNames == <<"plugin1", "plugin2", "plugin3", "plugin4">>
Priorities == {-1, 10}
TestRoute == <<"/", "test">>
ModifiedContent == "modified content"

\* The results a mockPlugin is built to return.
NothingResult ==
    [success |-> TRUE, modified |-> FALSE, newContent |-> NoContent, mime |-> "",
     routesNil |-> TRUE, routes |-> << >>, deps |-> << >>]
ModifyResult ==
    [success |-> TRUE, modified |-> TRUE, newContent |-> ModifiedContent,
     mime |-> "text/plain", routesNil |-> FALSE, routes |-> <<TestRoute>>, deps |-> << >>]
EmptyRoutesResult == [NothingResult EXCEPT !.routesNil = FALSE]
UnmodifiedResult ==
    [NothingResult EXCEPT !.newContent = RawContent, !.deps = <<HeaderPath>>]
NoContentResult == [NothingResult EXCEPT !.modified = TRUE, !.mime = "text/html"]
FailCarryingResult == [ModifyResult EXCEPT !.success = FALSE, !.deps = <<HeaderPath>>]
MockResults ==
    {NothingResult, ModifyResult, EmptyRoutesResult, UnmodifiedResult, NoContentResult,
     FailResult, FailCarryingResult}

\* &mockPlugin{...} for the n-th registration
MockPlugins(n) ==
    {[name |-> PluginNames[n], priority |-> pr, canProcess |-> TRUE, result |-> res] :
        pr \in Priorities, res \in MockResults}
    \cup {[name |-> PluginNames[n], priority |-> pr, canProcess |-> FALSE,
            result |-> NothingResult] : pr \in Priorities}

\* What the pipeline looks at and writes in a File.
Summary(cp, deps) ==
    [content |-> cp.content, routes |-> cp.routes, mime |-> cp.mime, deps |-> deps]

NoPluginCall ==
    [op |-> "none", file |-> Summary(NewFileRec(<< >>, 0), {}), ran |-> << >>,
     result |-> Summary(NewFileRec(<< >>, 0), {}), list |-> << >>]

InitPlugins ==
    /\ disk = SiteBase
    /\ fm \in {Compact(st) : st \in Startup(SiteBase)}
    /\ mu = Unlocked
    /\ threads = NoThreads
    /\ pm = << >>
    /\ rm = NewRouterManager
    /\ ops = 0
    /\ crashed = FALSE
    /\ mark = NoMark
    /\ fw = NewFileWatcher
    /\ lsn = NewListener
    /\ queue = << >>
    /\ last = NoEvent
    /\ calls = 0
    /\ lastCall = NoPluginCall

\* pm.RegisterPlugin(plugin)
PluginsRegister ==
    /\ Len(pm) < MaxPlugins
    /\ \E plugin \in MockPlugins(Len(pm) + 1) : pm' \in RegisterPlugin(pm, plugin)
    /\ calls' = calls + 1
    /\ lastCall' = [NoPluginCall EXCEPT !.op = "RegisterPlugin"]
    /\ UNCHANGED <<mu, threads, fm, disk, ops, crashed, mark, fw, lsn, queue, rm, last>>

\* pm.Process(*file, fm) for a File of the graph
PluginsProcess ==
    /\ \E p \in {FileA, HeaderPath} \cap DOMAIN fm.files :
       \E r \in {ProcessWith(pm, fm, fm.files[p], disk)} :
          /\ fm' = Compact(r.st)
          /\ lastCall' =
                [NoPluginCall EXCEPT
                   !.op = "Process",
                   !.file = Summary(fm.objs[fm.files[p]],
                                    DOMAIN fm.maps[fm.objs[fm.files[p]].deps]),
                   !.ran = [i \in 1..Len(r.ran) |->
                              [plugin |-> r.ran[i].plugin,
                               after |-> Summary(r.ran[i].cp, r.ran[i].deps)]],
                   !.result = Summary(r.st.objs[Len(r.st.objs)],
                                      DOMAIN r.st.maps[r.st.objs[Len(r.st.objs)].deps])]
    /\ UNCHANGED <<mu, threads, pm, disk, ops, crashed, mark, fw, lsn, queue, rm, last, calls>>

\* pm.ListPlugins()
PluginsList ==
    /\ lastCall' = [NoPluginCall EXCEPT !.op = "ListPlugins", !.list = ListPlugins(pm)]
    /\ UNCHANGED <<mu, threads, pm, fm, disk, ops, crashed, mark, fw, lsn, queue, rm, last, calls>>

NextPlugins ==
    \/ PluginsRegister
    \/ PluginsProcess
    \/ PluginsList

SpecPlugins == InitPlugins /\ [][NextPlugins]_vars

\* The decimal text of the priorities the mockPlugins have.
PriorityText == (-1 :> <<"-", "1">>) @@ (10 :> <<"1", "0">>)

\* C16: after every registerPlugin the list holds the registered plugins in
\* ascending order of priority; the pipeline for a File invokes exactly the
\* plugins whose canProcess is true, each once, in the order of the list;
\* the listing has one "<name> (priority: <n>)" entry per plugin, in the
\* order of the list.
C16_SortedByPriority ==
    /\ Len(pm) = calls
    /\ \A i \in 1..Len(pm) : \A j \in 1..Len(pm) :
          i < j => pm[i].priority <= pm[j].priority
    /\ lastCall.op = "Process" =>
          [i \in 1..Len(lastCall.ran) |-> lastCall.ran[i].plugin]
             = SelectSeq(pm, LAMBDA pl : pl.canProcess)
    /\ lastCall.op = "ListPlugins" =>
          /\ Len(lastCall.list) = Len(pm)
          /\ \A i \in 1..Len(pm) :
                lastCall.list[i] = <<pm[i].name, " (priority: ">>
                                      \o PriorityText[pm[i].priority] \o <<")">>

\* Three plugins registered in descending order of priority, one of which
\* cannot process the File, and the pipeline ran the other two.
C16_Witness ==
    /\ lastCall.op = "Process"
    /\ Len(pm) = 3
    /\ pm[1].name = "plugin3" /\ pm[3].name = "plugin1"
    /\ Len(lastCall.ran) = 2

\* The merge of one result as the specification describes it: routes are
\* replaced by a non-empty list only.
StatedMerge(f, res, deps) ==
    [content |-> IF res.modified /\ res.newContent # NoContent THEN res.newContent
                 ELSE f.content,
     routes |-> IF res.routes # << >> THEN res.routes ELSE f.routes,
     mime |-> IF res.mime # "" THEN res.mime ELSE f.mime,
     deps |-> f.deps \cup deps]

RECURSIVE StatedFold(_, _)
StatedFold(f, plugins) ==
    IF plugins = << >> THEN f
    ELSE StatedFold(StatedMerge(f, plugins[1].result,
                                {plugins[1].result.deps[i] :
                                   i \in 1..Len(plugins[1].result.deps)}),
                    Tail(plugins))

\* C17: the result of the pipeline for a File is the left fold, over the
\* matching plugins in list order, of the merge that replaces content when
\* modified is set and newContent is present, routes when the plugin
\* supplies a non-empty list, mimeType when it is non-empty, and adds the
\* declared dependencies.
C17_PipelineIsLeftFold ==
    lastCall.op = "Process" =>
        lastCall.result = StatedFold(lastCall.file, SelectSeq(pm, LAMBDA pl : pl.canProcess))

\* C18: a plugin whose result has the success flag false contributes
\* nothing: content, routes, mimeType and dependencies of the in-flight File
\* after it are those before it, and the plugins after it run.
C18_FailureContributesNothing ==
    lastCall.op = "Process" =>
        /\ Len(lastCall.ran) = Len(SelectSeq(pm, LAMBDA pl : pl.canProcess))
        /\ \A i \in 1..Len(lastCall.ran) :
              ~lastCall.ran[i].plugin.result.success =>
                 lastCall.ran[i].after = IF i = 1 THEN lastCall.file
                                         ELSE lastCall.ran[i - 1].after

\* ------------------------------------------------- the ignore specification
\* The running server on a site where hidden files, backup files and
\* symlinks are created, written and deleted next to regular files.

\* content/a.md is a symlink whenever it exists.
LinkFile == FileAmd
IgnoreSiteFiles == {FileA, HiddenFile, TempFile, LinkFile}

SiteIgnored ==
    [SiteBase EXCEPT !.files = @ \cup {HiddenFile, TempFile, LinkFile},
                     !.links = {LinkFile}]

InitIgnore ==
    /\ disk \in {SiteBase, SiteIgnored}
    /\ fm \in {Compact(st) : st \in Startup(disk)}
    /\ fw = WatcherStart(NewFileWatcher, SiteRoot, disk).fw
    /\ rm \in InitializeRouter(fm)
    /\ lsn = ListenerStart(NewListener).lsn
    /\ queue = << >>
    /\ ops = 0
    /\ crashed = FALSE
    /\ mark = NoMark
    /\ last = NoEvent
    /\ calls = 0
    /\ lastCall = NoCall
    /\ mu = Unlocked
    /\ threads = NoThreads
    /\ pm = Plugins

IgnoreCreateFile ==
    /\ ~crashed
    /\ \E p \in IgnoreSiteFiles \ disk.files :
          SiteChanged(IF p = LinkFile THEN DiskCreateLink(disk, p)
                      ELSE DiskCreateFile(disk, p), "Create", p)
    /\ fw' = fw

IgnoreWriteFile ==
    /\ ~crashed
    /\ \E p \in IgnoreSiteFiles \cap disk.files :
          SiteChanged(DiskWriteFile(disk, p, p \in disk.ign), "Write", p)
    /\ fw' = fw

IgnoreDeleteFile ==
    /\ ~crashed
    /\ \E p \in IgnoreSiteFiles \cap disk.files :
          SiteChanged(DiskDeleteFile(disk, p), "Remove", p)
    /\ fw' = fw

NextIgnore ==
    \/ IgnoreCreateFile
    \/ IgnoreWriteFile
    \/ IgnoreDeleteFile
    \/ SiteFileCreated
    \/ SiteFileModified
    \/ SiteFileDeleted

SpecIgnore == InitIgnore /\ [][NextIgnore]_vars

\* The ignore policy as stated: the basename starts with a dot, the path is
\* a symlink, or the basename has a temporary suffix.
StatedIgnored(p) ==
    \/ Chars(Base(p))[1] = "."
    \/ p \in disk.links
    \/ \E suf \in {<<".","b","a","k">>, <<".","t","m","p">>, <<"~">>,
                   <<".","s","w","p">>, <<".","l","o","c","k">>} :
          HasSuffix(Chars(Base(p)), suf)

\* C19: no ignored path enters the graph: the path index holds no File whose
\* basename starts with a dot or has a temporary suffix or whose path is a
\* symlink, and no FileCreated, FileModified or DirCreated event for such a
\* path is in the channel.
C19_NoIgnoredPathInGraph ==
    /\ \A p \in DOMAIN fm.files : ~StatedIgnored(p)
    /\ \A i \in 1..Len(queue) :
          queue[i].type \in {"FileCreated", "FileModified", "DirCreated"} =>
             ~StatedIgnored(queue[i].path)

\* ------------------------------------------------------- the event channel

\* One step of the watcher or of the listener as the channel sees it: a
\* filesystem change with the channel full leaves the channel as it is (the
\* event is dropped, the watcher goes on); with room, it adds at most one
\* event at the end; the listener takes the event at the head and handles
\* that event, or dies in its handler.
LossyFifoStep ==
    \/ /\ ops' # ops /\ Len(queue) >= ChanCap
       /\ queue' = queue
    \/ /\ ops' # ops /\ Len(queue) < ChanCap
       /\ \/ queue' = queue
          \/ Len(queue') = Len(queue) + 1 /\ SubSeq(queue', 1, Len(queue)) = queue
    \/ /\ ops' = ops /\ queue # << >>
       /\ \/ /\ queue' = Tail(queue)
             /\ last'.type = Head(queue).type /\ last'.path = Head(queue).path
          \/ crashed' /\ queue' = queue

\* C20: the event channel is a lossy FIFO with a non-blocking producer: the
\* watcher's send never blocks (with the channel full the event is dropped
\* and the watcher goes on), and the listener handles the events the
\* watcher emitted, minus the dropped ones, in the order of emission, none
\* twice.
C20_LossyFifo == [][LossyFifoStep]_vars

\* content/a.md was created, written and deleted while the listener was
\* busy: the FileDeleted event found the channel full and was dropped, and
\* the listener has since handled FileCreated with FileModified next.
C20_Witness ==
    /\ ops = 3
    /\ FileAmd \notin disk.files
    /\ last.type = "FileCreated" /\ last.path = FileAmd
    /\ queue = <<[type |-> "FileModified", path |-> FileAmd]>>

\* ------------------------------------------------ the FileManager lock

MaxLockFiles == 2
MaxReads == 2

LockOp(op, by) == [op |-> op, by |-> by]

\* GetFile takes the read lock for the lookup and releases it on return.
GetFileLocks(by) == <<LockOp("RLock", by), LockOp("RUnlock", by)>>

\* The page plugins look up layout/header.html and layout/footer.html
\* through the FileManager while they process a file.
PluginLocks == GetFileLocks("plugin") \o GetFileLocks("plugin")

\* One iteration of the processing loops: the pipeline, then the processed
\* File is stored under the write lock.
RECURSIVE ProcessEachLocks(_)
ProcessEachLocks(n) ==
    IF n = 0 THEN << >>
    ELSE PluginLocks \o <<LockOp("Lock", "fm"), LockOp("Unlock", "fm")>>
         \o ProcessEachLocks(n - 1)

\* ProcessAllFiles copies the path index under the read lock, releases it
\* and then processes each of the n files.
ProcessAllFilesLocks(n) == GetFileLocks("fm") \o ProcessEachLocks(n)

\* The same loop with the read lock kept until every file is processed.
ProcessUpdatedFilesHoldingLock(n) ==
    <<LockOp("RLock", "fm")>> \o ProcessEachLocks(n) \o <<LockOp("RUnlock", "fm")>>

\* ProcessUpdatedFiles collects the n files that need an update under the
\* read lock, releases it and then processes each of them.
ProcessUpdatedFilesLocks(n) == GetFileLocks("fm") \o ProcessEachLocks(n)

\* HandleFileCreated: WalkDirectory and AddFile each hold the write lock
\* until they return, then the pipeline runs on a copy of the new File.
HandleFileCreatedLocks ==
    <<LockOp("Lock", "fm"), LockOp("Unlock", "fm"),
      LockOp("Lock", "fm"), LockOp("Unlock", "fm")>> \o PluginLocks

\* An HTTP handler looks its File up once per request.
RECURSIVE HandlerLocks(_)
HandlerLocks(n) ==
    IF n = 0 THEN << >> ELSE GetFileLocks("fm") \o HandlerLocks(n - 1)

InitLock ==
    /\ mu = Unlocked
    /\ \E n \in 1..MaxLockFiles, k \in 1..MaxReads :
          threads = [t \in Goroutines |->
                       CASE t = "all" -> ProcessAllFilesLocks(n)
                         [] t = "created" -> HandleFileCreatedLocks
                         [] t = "http" -> HandlerLocks(k)
                         [] OTHER -> ProcessUpdatedFilesLocks(n)]
    /\ disk = SiteBase
    /\ fm \in {Compact(st) : st \in Startup(SiteBase)}
    /\ pm = Plugins
    /\ rm = NewRouterManager
    /\ ops = 0
    /\ crashed = FALSE
    /\ mark = NoMark
    /\ fw = NewFileWatcher
    /\ lsn = NewListener
    /\ queue = << >>
    /\ last = NoEvent
    /\ calls = 0
    /\ lastCall = NoCall

NextOp(t, op) == threads[t] # << >> /\ Head(threads[t]).op = op

Advance(t) == threads' = [threads EXCEPT ![t] = Tail(@)]

LockFrame ==
    UNCHANGED <<pm, fm, disk, ops, crashed, mark, fw, lsn, queue, rm, last, calls, lastCall>>

MuRLock(t) ==
    /\ NextOp(t, "RLock")
    /\ CanRLock(mu)
    /\ mu' = RLock(mu, t)
    /\ Advance(t)
    /\ LockFrame

MuRUnlock(t) ==
    /\ NextOp(t, "RUnlock")
    /\ mu' = RUnlock(mu, t)
    /\ Advance(t)
    /\ LockFrame

\* Lock() first announces the writer, which stops new readers, and returns
\* once the readers and the previous writer have left.
MuCallLock(t) ==
    /\ NextOp(t, "Lock")
    /\ t \notin mu.waiting
    /\ mu' = CallLock(mu, t)
    /\ UNCHANGED threads
    /\ LockFrame

MuLock(t) ==
    /\ NextOp(t, "Lock")
    /\ t \in mu.waiting
    /\ CanLock(mu)
    /\ mu' = Lock(mu, t)
    /\ Advance(t)
    /\ LockFrame

MuUnlock(t) ==
    /\ NextOp(t, "Unlock")
    /\ mu' = Unlock(mu)
    /\ Advance(t)
    /\ LockFrame

NextLock ==
    \/ \E t \in Goroutines : MuRLock(t)
    \/ \E t \in Goroutines : MuRUnlock(t)
    \/ \E t \in Goroutines : MuCallLock(t)
    \/ \E t \in Goroutines : MuLock(t)
    \/ \E t \in Goroutines : MuUnlock(t)

SpecLock == InitLock /\ [][NextLock]_vars

InPlugin(t) == threads[t] # << >> /\ Head(threads[t]).by = "plugin"

\* C21: the pipeline never runs while the FileManager lock is held: a
\* goroutine that is inside a plugin holds neither the write lock nor a read
\* lock of its own from before the pipeline started, and as long as any
\* goroutine has work left some goroutine can take its next step, so no
\* interleaving of ProcessAllFiles, parallel ProcessUpdatedFiles runs, the
\* FileCreated handler and HTTP readers deadlocks.
C21_PipelineRunsUnlocked ==
    /\ \A t \in Goroutines :
          InPlugin(t) =>
             /\ mu.writer # t
             /\ mu.readers[t] = (IF Head(threads[t]).op = "RUnlock" THEN 1 ELSE 0)
    /\ (\A t \in Goroutines : threads[t] = << >>) \/ ENABLED NextLock

\* A plugin's GetFile waits for another goroutine's write lock.
C21_Witness ==
    \E t \in Goroutines :
       /\ InPlugin(t)
       /\ Head(threads[t]).op = "RLock"
       /\ mu.writer \notin {"", t}

\* ------------------------------------------- the tree and the path index

MaxTreeCalls == 3

\* A site with content/blog, its siblings content/blog2 and content/blog.md,
\* and the layout files.
SiteTree ==
    [dirs |-> {ContentDir, BlogDir, Blog2Dir, LayoutDir},
     files |-> {FileP, FileBlogMd, FileX, HeaderPath, FooterPath},
     ign |-> {}, redir |-> {}, links |-> {}]

\* Paths given to AddFile and RemoveFile: files of the site, a new file in
\* content/, and files whose parent or grandparent directory is not in the tree.
TreePaths ==
    {FileP, FileBlogMd, FileX, HeaderPath, FileAmd, FileCss, <<"assets", "blog", "a.md">>}

\* Paths given to RemoveDirectory: directories of the site, and absent
\* directories of depth one and two with and without their parent in the tree.
TreeDirs ==
    {BlogDir, Blog2Dir, LayoutDir, AssetsDir, <<"assets", "blog">>, <<"content", "assets">>}

InitTree ==
    /\ disk = SiteTree
    /\ fm \in {Compact(st) : st \in Startup(SiteTree)}
    /\ mu = Unlocked
    /\ threads = NoThreads
    /\ pm = Plugins
    /\ rm = NewRouterManager
    /\ ops = 0
    /\ crashed = FALSE
    /\ mark = NoMark
    /\ fw = NewFileWatcher
    /\ lsn = NewListener
    /\ queue = << >>
    /\ last = NoEvent
    /\ calls = 0
    /\ lastCall = NoCall

\* The call is over, by return or by panic: the heap is collected and the
\* call is recorded with the graph it was made on.
TreeDone(st, type, p, panic) ==
    /\ ~crashed
    /\ calls < MaxTreeCalls
    /\ \E c \in {Compact(st)} : Len(c.objs) <= MaxObjs /\ fm' = c
    /\ last' = [type |-> type, path |-> p, pre |-> fm, panic |-> panic]
    /\ crashed' = panic
    /\ calls' = calls + 1
    /\ UNCHANGED <<mu, threads, pm, disk, ops, mark, fw, lsn, queue, rm, lastCall>>

TreeWalkDirectory ==
    \E root \in {ContentDir, LayoutDir} : \E r \in {WalkDirectory(fm, root, disk)} :
       TreeDone(r.st, "WalkDirectory", root, FALSE)

TreeProcessUpdatedFiles ==
    \E st \in ProcessUpdatedFiles(fm, disk) : TreeDone(st, "ProcessUpdatedFiles", << >>, FALSE)

TreeAddFile ==
    \E p \in TreePaths : \E r \in AddFile(fm, p) : TreeDone(r.st, "AddFile", p, r.panic)

TreeRemoveFile ==
    \E p \in TreePaths : \E r \in RemoveFile(fm, p) : TreeDone(r.st, "RemoveFile", p, r.panic)

TreeRemoveDirectory ==
    \E d \in TreeDirs : \E r \in RemoveDirectory(fm, d) :
       TreeDone(r.st, "RemoveDirectory", d, r.panic)

NextTree ==
    \/ TreeWalkDirectory
    \/ TreeProcessUpdatedFiles
    \/ TreeAddFile
    \/ TreeRemoveFile
    \/ TreeRemoveDirectory

SpecTree == InitTree /\ [][NextTree]_vars

\* What a File looked up by path shows: its content and the paths of its edges.
FileView(st, p) ==
    LET f == st.objs[st.files[p]]
    IN  [content |-> f.content, routes |-> f.routes, mime |-> f.mime, redirect |-> f.redirect,
         deps |-> DOMAIN st.maps[f.deps], dpts |-> DOMAIN st.maps[f.dpts]]

EdgesView(st, p) == [deps |-> FileView(st, p).deps, dpts |-> FileView(st, p).dpts]

RECURSIVE DependentPaths(_, _)
\* The indexed Files that depend on a path of S, directly or transitively.
DependentPaths(st, S) ==
    LET next == S \cup UNION {DependOn(st, p) : p \in S}
    IN  IF next = S THEN S ELSE DependentPaths(st, next)

InTree(st, d) == d = DotPath \/ d \in st.dirs

\* C22: addFile(path) with the parent directory in the graph leaves the File
\* present, registered below its parent directory, with content absent, and
\* every transitive dependent of it with content absent; for a path that
\* already exists the call is not an error, keeps the File's edges and only
\* re-marks; with the parent directory missing the call fails and the graph
\* is unchanged.
C22_AddFileContract ==
    last.type = "AddFile" =>
       LET c == Clean(last.path)
       IN  IF InTree(last.pre, Dir(c))
           THEN /\ ~last.panic
                /\ c \in DOMAIN fm.files
                /\ InTree(fm, Dir(c))
                /\ \A g \in DependentPaths(fm, {c}) :
                      g \in DOMAIN fm.files => FileView(fm, g).content = NoContent
                /\ c \in DOMAIN last.pre.files =>
                      /\ EdgesView(fm, c) = EdgesView(last.pre, c)
                      /\ DOMAIN fm.files = DOMAIN last.pre.files
                      /\ fm.dirs = last.pre.dirs
           ELSE last.panic /\ fm = last.pre

\* C23: removeFile(path) and removeDirectory(path) on a path that is not in
\* the graph are no-ops: the call returns normally and the tree, the path
\* index and all edges are unchanged, whatever the depth of the path and
\* whether or not its parent directories are in the tree.
C23_RemovingAbsentPathIsNoOp ==
    /\ last.type \in {"RemoveFile", "RemoveDirectory"}
    /\ Clean(last.path) \notin DOMAIN last.pre.files
    /\ Clean(last.path) \notin last.pre.dirs
    => ~last.panic /\ fm = last.pre

\* C24: removeDirectory(d) removes exactly the subtree of d: no File or
\* Directory at or below d is left, and every File and Directory outside the
\* subtree, siblings whose path begins with the same characters included, is
\* still present with unchanged content.
C24_RemovesExactlyTheSubtree ==
    last.type = "RemoveDirectory" /\ ~last.panic =>
       LET d == Clean(last.path)
       IN  /\ \A p \in DOMAIN fm.files \cup fm.dirs : ~Below(p, d)
           /\ \A p \in DOMAIN last.pre.files :
                 ~Below(p, d) =>
                    /\ p \in DOMAIN fm.files
                    /\ FileView(fm, p).content = FileView(last.pre, p).content
           /\ \A p \in last.pre.dirs : ~Below(p, d) => p \in fm.dirs

\* C25: after a directory removal every edge touching a removed File is
\* gone and every File that depended on a removed File has content absent.
C25_DirectoryRemovalInvalidatesDependents ==
    last.type = "RemoveDirectory" =>
       LET removed == DOMAIN last.pre.files \ DOMAIN fm.files
       IN  /\ \A q \in DOMAIN fm.files :
                /\ FileView(fm, q).deps \cap removed = {}
                /\ FileView(fm, q).dpts \cap removed = {}
           /\ \A r \in removed : \A g \in DependOn(last.pre, r) :
                g \in DOMAIN fm.files => FileView(fm, g).content = NoContent

\* ------------------------------------------------- edits of a live site

MaxEdits == 3

\* Files an editor adds to the running site and files an editor saves.
EditCreated == {FileAmd, FilePartial}
EditSaved == {FileA, HeaderPath}

InitEdit ==
    /\ disk = SiteBase
    /\ fm \in {Compact(st) : st \in Startup(disk)}
    /\ fw = WatcherStart(NewFileWatcher, SiteRoot, disk).fw
    /\ rm \in InitializeRouter(fm)
    /\ lsn = ListenerStart(NewListener).lsn
    /\ queue = << >>
    /\ ops = 0
    /\ crashed = FALSE
    /\ mark = NoMark
    /\ last = NoEvent
    /\ calls = 0
    /\ lastCall = NoCall
    /\ mu = Unlocked
    /\ threads = NoThreads
    /\ pm = Plugins

EditChanged(dsk, op, p) ==
    /\ ~crashed
    /\ ops < MaxEdits
    /\ ops' = ops + 1
    /\ disk' = dsk
    /\ queue' = processWatcherEvents(fw, queue, op, p, dsk)
    /\ UNCHANGED <<mu, threads, pm, fm, crashed, mark, fw, lsn, rm, last, calls, lastCall>>

EditCreateFile ==
    \E p \in EditCreated \ disk.files : EditChanged(DiskCreateFile(disk, p), "Create", p)

EditSaveFile ==
    \E p \in EditSaved \cap disk.files :
       EditChanged(DiskWriteFile(disk, p, p \in disk.ign), "Write", p)

NextEdit ==
    \/ EditCreateFile
    \/ EditSaveFile
    \/ SiteFileCreated
    \/ SiteFileModified

SpecEdit == InitEdit /\ [][NextEdit]_vars

\* ------------------------------------------- what an event leaves behind

\* The listener has taken the event at the head of the channel and its
\* handler has returned.
HandledStep(type) ==
    /\ ops' = ops
    /\ queue # << >>
    /\ Head(queue).type = type
    /\ queue' = Tail(queue)

\* The File stored for g is collected by the ProcessUpdatedFiles run that
\* follows AddFile(d): AddFile has left it with content absent.
RerunAfterAddFile(d, g) ==
    \A a \in AddFile(fm, d) : ~a.panic /\ NeedsUpdate(a.st, a.st.files[g])

RebuiltStep ==
    HandledStep("FileModified") =>
       LET d == Clean(Head(queue).path)
       IN  \A g \in DependentPaths(fm, {d}) \ {d} :
              /\ RerunAfterAddFile(d, g)
              /\ g \in DOMAIN fm'.files
              /\ {g, HeaderPath, FooterPath} \subseteq disk.files =>
                    /\ FileView(fm', g).content # NoContent
                    /\ d \in FileView(fm', g).deps

\* C26: once the listener has fully handled the FileModified event of a File
\* d, every File of the path index that declared d as a dependency, directly
\* or transitively, has been re-run through the pipeline after the event, has
\* content built from the new d and still has d in its dependencies,
\* whatever events were handled before.
C26_ModifiedDependencyRebuildsDependents == [][RebuiltStep]_vars

\* What the claim of the frame compares: content, routes, metadata and the
\* dependencies a File declared.
FrameView(st, p) ==
    LET v == FileView(st, p)
    IN  [content |-> v.content, routes |-> v.routes, mime |-> v.mime,
         redirect |-> v.redirect, deps |-> v.deps]

FrameStep ==
    HandledStep("FileCreated") \/ HandledStep("FileModified") =>
       LET p == Clean(Head(queue).path)
       IN  \A q \in DOMAIN fm.files \ DependentPaths(fm, {p}) :
              /\ q \in DOMAIN fm'.files
              /\ FrameView(fm', q) = FrameView(fm, q)

\* C27: handling a FileCreated or FileModified event for p changes no File
\* other than p and the transitive dependents of p: every other File, the
\* other files of p's directory included, keeps its content, routes, metadata
\* and dependency edges.
C27_OnlyTheFileAndItsDependentsChange == [][FrameStep]_vars

\* C30: after the listener has fully handled the FileCreated event of a
\* content file, the File stored in the graph for that path has the content
\* the pipeline produced and GET on each of its routes answers 200 with
\* that content; and once the listener is idle no File that a plugin can
\* process is left with content absent.
C30_CreatedFileIsBuilt ==
    /\ (/\ last.type = "FileCreated" /\ ~last.err
        /\ UnderContent(last.path)
        /\ {last.path, HeaderPath, FooterPath} \subseteq disk.files) =>
          /\ last.path \in DOMAIN fm.files
          /\ FileView(fm, last.path).content = HtmlContent
          /\ \A r \in last.made :
                /\ ServeHTTP(rm, fm, r).status = 200
                /\ ServeHTTP(rm, fm, r).content = HtmlContent
    /\ (queue = << >> /\ ~crashed /\ {HeaderPath, FooterPath} \subseteq disk.files) =>
          \A p \in DOMAIN fm.files :
             p \in disk.files /\ GetPluginsForFile(fm.objs[fm.files[p]]) # << >> =>
                FileView(fm, p).content # NoContent

\* ------------------------------------------------- directories appearing

\* The watcher runs with or without a listener taking events from its channel.
InitWatch ==
    /\ disk = SiteBase
    /\ fm \in {Compact(st) : st \in Startup(disk)}
    /\ fw = WatcherStart(NewFileWatcher, SiteRoot, disk).fw
    /\ rm \in InitializeRouter(fm)
    /\ lsn \in {NewListener, ListenerStart(NewListener).lsn}
    /\ queue = << >>
    /\ ops = 0
    /\ crashed = FALSE
    /\ mark = NoMark
    /\ last = NoEvent
    /\ calls = 0
    /\ lastCall = NoCall
    /\ mu = Unlocked
    /\ threads = NoThreads
    /\ pm = Plugins

\* mkdir content/blog, or a directory with a file moved to that place.
WatchMkdir ==
    /\ BlogDir \notin disk.dirs
    /\ \E fs \in SUBSET {FileP} :
          EditChanged(DiskMoveDirIn(disk, BlogDir, fs), "Create", BlogDir)

\* One iteration of the listener's processEvents loop as the channel shows
\* it: a started listener takes the event at the head and its handler returns.
ListenerTakes ==
    /\ ~crashed /\ lsn.running /\ queue # << >>
    /\ ops' = ops
    /\ queue' = Tail(queue)

NextWatch ==
    \/ EditCreateFile
    \/ EditSaveFile
    \/ WatchMkdir
    \/ SiteFileCreated
    \/ SiteFileModified
    \/ SiteDirCreated

\* The listener goroutine, when started, keeps receiving from the channel.
SpecWatch == InitWatch /\ [][NextWatch]_vars /\ WF_<<ops, queue>>(ListenerTakes)

\* C29: every non-ignored directory that appears under a watched directory
\* while the watcher is running is eventually in the watcher's watched set,
\* with or without a listener taking events and whether or not its
\* DirCreated event was dropped.
C29_NewDirectoryEventuallyWatched ==
    (BlogDir \in disk.dirs /\ fw.running /\ ~crashed) ~> (BlogDir \in fw.watched \/ crashed)

\* ------------------------------------------------------- dropped events

MaxDropOps == 4

\* Files and the directory that change while the listener is behind.
DropFiles == {FileA, FileAmd, FileP}

\* As InitSite; mark holds the paths whose last emitted event was dropped.
InitDrop ==
    /\ disk \in {SiteBase, SiteBlog}
    /\ fm \in {Compact(st) : st \in Startup(disk)}
    /\ fw = WatcherStart(NewFileWatcher, SiteRoot, disk).fw
    /\ rm \in InitializeRouter(fm)
    /\ lsn = ListenerStart(NewListener).lsn
    /\ queue = << >>
    /\ ops = 0
    /\ crashed = FALSE
    /\ mark = {}
    /\ last = NoEvent
    /\ calls = 0
    /\ lastCall = NoCall
    /\ mu = Unlocked
    /\ threads = NoThreads
    /\ pm = Plugins

\* The events of the channel as the watcher sent them.
Sent(q) == [i \in 1..Len(q) |-> [type |-> q[i].type, path |-> q[i].path]]

\* A filesystem change seen by the watcher.  The event it sends is recorded
\* as dropped when the channel is full; an event that does get into the
\* channel is tagged with the dropped paths it is the next event for.
DropChanged(dsk, op, p) ==
    /\ ~crashed
    /\ ops < MaxDropOps
    /\ ops' = ops + 1
    /\ disk' = dsk
    /\ \E sent \in {processWatcherEvents(fw, << >>, op, p, dsk)} :
       \E q1 \in {processWatcherEvents(fw, Sent(queue), op, p, dsk)} :
          IF sent = << >> THEN UNCHANGED <<queue, mark>>
          ELSE IF Len(q1) = Len(queue)
               THEN queue' = queue /\ mark' = mark \cup {sent[1].path}
          ELSE LET repairs == {d \in mark : Below(sent[1].path, d)}
               IN  /\ queue' = Append(queue, [type |-> sent[1].type, path |-> sent[1].path,
                                              repairs |-> repairs])
                   /\ mark' = mark \ repairs
    /\ UNCHANGED <<mu, threads, pm, fm, crashed, lsn, rm, last, calls, lastCall>>

DropCreateFile ==
    /\ \E p \in DropFiles \ disk.files :
          Dir(p) \in disk.dirs /\ DropChanged(DiskCreateFile(disk, p), "Create", p)
    /\ fw' = fw

DropSaveFile ==
    /\ \E p \in DropFiles \cap disk.files :
          DropChanged(DiskWriteFile(disk, p, p \in disk.ign), "Write", p)
    /\ fw' = fw

DropDeleteFile ==
    /\ \E p \in DropFiles \cap disk.files : DropChanged(DiskDeleteFile(disk, p), "Remove", p)
    /\ fw' = fw

DropMkdir ==
    /\ BlogDir \notin disk.dirs
    /\ DropChanged(DiskMoveDirIn(disk, BlogDir, {}), "Create", BlogDir)
    /\ fw' = fw

DropMoveDirOut ==
    /\ BlogDir \in disk.dirs
    /\ DropChanged(DiskMoveDirOut(disk, BlogDir), "Rename", BlogDir)
    /\ fw' = [fw EXCEPT !.notify = {d \in @ : ~Below(d, BlogDir)}]

NextDrop ==
    \/ DropCreateFile
    \/ DropSaveFile
    \/ DropDeleteFile
    \/ DropMkdir
    \/ DropMoveDirOut
    \/ SiteFileCreated
    \/ SiteFileModified
    \/ SiteFileDeleted
    \/ SiteDirCreated
    \/ SiteDirDeleted

SpecDrop == InitDrop /\ [][NextDrop]_vars

\* Graph and route table agree with the disk on d and on what lies below d:
\* the path index holds exactly the files on disk, a file under content/ has
\* a route, nothing that is gone has one, and a directory is in the tree
\* exactly when it is on disk.
AgreesWithDisk(st, r, dsk, d) ==
    /\ \A f \in {x \in dsk.files \cup DOMAIN st.files \cup Range(r.routes) : Below(x, d)} :
          /\ f \in dsk.files <=> f \in DOMAIN st.files
          /\ f \in dsk.files /\ UnderContent(f) => f \in Range(r.routes)
          /\ f \notin dsk.files => f \notin Range(r.routes)
    /\ d \in dsk.dirs => d \in st.dirs
    /\ d \notin dsk.dirs /\ d \notin dsk.files => d \notin st.dirs

Touches(x, d) == Below(x, d) \/ Below(d, x)

\* The listener takes the next event for a path with a dropped event, and
\* nothing else has happened to that path since.
RepairingStep ==
    /\ ops' = ops
    /\ queue # << >> /\ ~crashed
    /\ Head(queue).repairs # {}
    /\ \A d \in Head(queue).repairs :
          /\ \A x \in mark : ~Touches(x, d)
          /\ \A i \in 2..Len(queue) : ~Touches(queue[i].path, d)

RepairedStep ==
    RepairingStep =>
       /\ ~crashed'
       /\ queue' = Tail(queue)
       /\ ~last'.err
       /\ \A d \in Head(queue).repairs : AgreesWithDisk(fm', rm', disk, d)

\* C28: a dropped event is repaired by the next edit: when an event for p
\* was dropped on a full channel, then once the next event on p (or on a
\* file inside the directory p) has been delivered and handled, the graph
\* and the route table agree with the disk for p, and handling that event
\* does not fail.
C28_DroppedEventRepairedByNextEdit == [][RepairedStep]_vars

\* ------------------------------------------------- directories disappearing

\* The listener has handled DirDeleted for d and its handler has returned:
\* nothing at or below d is left in watchedDirs.
UnwatchedStep ==
    HandledStep("DirDeleted") /\ ~crashed' =>
       \A x \in fw'.watched : ~Below(x, Head(queue).path)

\* The watcher reports the removal of a path as DirDeleted only when a
\* directory was removed.
RemovalReportedStep ==
    (ops' # ops /\ Len(queue') > Len(queue)
       /\ queue'[Len(queue')].type = "DirDeleted") =>
          queue'[Len(queue')].path \in disk.dirs

\* C31: after the listener has fully handled DirDeleted for a directory d,
\* neither d nor a directory below d is in the watcher's watched set, and the
\* removal of a regular file is never reported as DirDeleted.
C31_DeletedDirectoryIsUnwatched == [][UnwatchedStep /\ RemovalReportedStep]_vars

\* ------------------------------------------------------------ renamed files

\* Renames made in one run of the rename specification.
MaxRenames == 2
\* The files that are renamed, and the names they are given.
RenameFiles == {FileA, FileAmd, FileBlogMd, HeaderPath, FilePartial}

\* FileWatcherListener.processEvents, case FileRenamed: HandleFileDeleted
\* and then HandleFileCreated are called with the same event; both read
\* event.Path, and an error of either is logged only.
HandleFileRenamed(c, ev, dsk) ==
    UNION {IF d.panic THEN {Panicked(c)}
           ELSE HandleFileCreated([fm |-> d.fm, rm |-> d.rm, fw |-> d.fw], ev, dsk)
           : d \in HandleFileDeleted(c, ev, dsk)}

\* A dispatch that handles the deletion of the old path and the creation of
\* the new one.
HandleRenamedByOldPath(c, ev, dsk) ==
    UNION {IF d.panic THEN {Panicked(c)}
           ELSE HandleFileCreated([fm |-> d.fm, rm |-> d.rm, fw |-> d.fw], ev, dsk)
           : d \in HandleFileDeleted(c, [ev EXCEPT !.path = ev.oldPath], dsk)}

InitRename ==
    /\ disk = SiteBase
    /\ fm \in {Compact(st) : st \in Startup(disk)}
    /\ fw = WatcherStart(NewFileWatcher, SiteRoot, disk).fw
    /\ rm \in InitializeRouter(fm)
    /\ lsn = ListenerStart(NewListener).lsn
    /\ queue = << >>
    /\ ops = 0
    /\ crashed = FALSE
    /\ mark = NoMark
    /\ last = NoEvent
    /\ calls = 0
    /\ lastCall = NoCall
    /\ mu = Unlocked
    /\ threads = NoThreads
    /\ pm = Plugins

\* A file is renamed inside the site and the listener is given a FileRenamed
\* event with both paths.
RenameFile ==
    /\ ~crashed
    /\ ops < MaxRenames
    /\ \E o \in RenameFiles \cap disk.files, n \in RenameFiles \ disk.files :
          /\ disk' = DiskCreateFile(DiskDeleteFile(disk, o), n)
          /\ queue' = sendEvent(queue, [type |-> "FileRenamed", path |-> n, oldPath |-> o])
    /\ ops' = ops + 1
    /\ UNCHANGED <<mu, threads, pm, fm, crashed, mark, fw, lsn, rm, last, calls, lastCall>>

SiteFileRenamed ==
    /\ queue # << >> /\ Head(queue).type = "FileRenamed"
    /\ Handled(Head(queue), HandleFileRenamed(Ctx, Head(queue), disk))

NextRename ==
    \/ RenameFile
    \/ SiteFileRenamed

SpecRename == InitRename /\ [][NextRename]_vars

RenamedStep ==
    HandledStep("FileRenamed") /\ ~crashed' =>
       LET o == Head(queue).oldPath
           n == Head(queue).path
       IN  /\ o \notin disk.files => GetFile(fm', o) = Nil
           /\ o \notin disk.files => \A r \in DOMAIN rm'.routes : rm'.routes[r] # o
           /\ n \in disk.files => GetFile(fm', n) # Nil
           /\ (n \in disk.files /\ affectsRoutes(n)) =>
                 \A r \in last'.made : r \in DOMAIN rm'.routes

Dispatch_(c, ev, dsk) ==
    CASE ev.type = "FileCreated"  -> HandleFileCreated(c, ev, dsk)
      [] ev.type = "FileModified" -> HandleFileModified(c, ev, dsk)
      [] ev.type = "FileDeleted"  -> HandleFileDeleted(c, ev, dsk)
      [] ev.type = "DirCreated"   -> HandleDirectoryCreated(c, ev, dsk)
      [] ev.type = "DirDeleted"   -> HandleDirectoryDeleted(c, ev, dsk)

InitStop ==
    /\ disk = SiteBase
    /\ fm \in {Compact(st) : st \in Startup(disk)}
    /\ fw = WatcherStart(NewFileWatcher, SiteRoot, disk).fw
    /\ rm \in InitializeRouter(fm)
    /\ lsn = [running |-> TRUE, cancelled |-> FALSE, pc |-> "select",
              ev |-> NoEvent, stop |-> "none", inflight |-> FALSE]
    /\ queue = << >>
    /\ ops = 0
    /\ crashed = FALSE
    /\ mark = NoMark
    /\ last = NoEvent
    /\ calls = 0
    /\ lastCall = NoCall
    /\ mu = Unlocked
    /\ threads = NoThreads
    /\ pm = Plugins

\* The select of processEvents takes the event case: Go chooses among the
\* ready cases at random, so an event can be taken after the context was
\* cancelled.
ListenerReceives ==
    /\ ~crashed
    /\ lsn.pc = "select"
    /\ queue # << >>
    /\ lsn' = [lsn EXCEPT !.pc = "handler", !.ev = Head(queue)]
    /\ queue' = Tail(queue)
    /\ UNCHANGED <<mu, threads, pm, fm, disk, ops, crashed, mark, fw, rm, last, calls, lastCall>>

\* The handler returns and the goroutine is back at its select.
ListenerHandles ==
    /\ ~crashed
    /\ lsn.pc = "handler"
    /\ \E out \in Dispatch_(Ctx, lsn.ev, disk) :
          IF out.panic
          THEN /\ crashed' = TRUE
               /\ UNCHANGED <<fm, rm, fw, lsn, last>>
          ELSE \E c \in {Compact(out.fm)} :
                 /\ Len(c.objs) <= MaxObjs
                 /\ fm' = c
                 /\ rm' = out.rm
                 /\ fw' = out.fw
                 /\ crashed' = FALSE
                 /\ lsn' = [lsn EXCEPT !.pc = "select", !.ev = NoEvent]
                 /\ last' = [type |-> lsn.ev.type, path |-> lsn.ev.path, err |-> out.err,
                             rebuilt |-> out.rebuilt, made |-> out.made,
                             routes |-> rm.routes]
    /\ UNCHANGED <<mu, threads, pm, disk, ops, mark, queue, calls, lastCall>>

\* The select takes the case <-fwl.ctx.Done(): the goroutine returns and
\* its deferred wg.Done() runs.
ListenerSeesDone ==
    /\ ~crashed
    /\ lsn.pc = "select"
    /\ lsn.cancelled
    /\ lsn' = [lsn EXCEPT !.pc = "exited"]
    /\ UNCHANGED <<mu, threads, pm, fm, disk, ops, crashed, mark, fw, queue, rm, last, calls, lastCall>>

\* Stop up to wg.Wait(): running is cleared and the context cancelled.
ListenerStopCalled ==
    /\ ~crashed
    /\ lsn.stop = "none"
    /\ lsn.running
    /\ lsn' = [lsn EXCEPT !.running = FALSE, !.cancelled = TRUE, !.stop = "waiting",
                          !.inflight = (lsn.pc = "handler")]
    /\ UNCHANGED <<mu, threads, pm, fm, disk, ops, crashed, mark, fw, queue, rm, last, calls, lastCall>>

\* A Stop that returns without waiting for the goroutine.
StopWithoutWait ==
    /\ ~crashed
    /\ lsn.stop = "waiting"
    /\ lsn' = [lsn EXCEPT !.stop = "returned"]
    /\ UNCHANGED <<mu, threads, pm, fm, disk, ops, crashed, mark, fw, queue, rm, last, calls, lastCall>>

\* wg.Wait() returns once the goroutine has exited, and Stop returns.
ListenerStopReturns ==
    /\ ~crashed
    /\ lsn.stop = "waiting"
    /\ lsn.pc = "exited"
    /\ lsn' = [lsn EXCEPT !.stop = "returned"]
    /\ UNCHANGED <<mu, threads, pm, fm, disk, ops, crashed, mark, fw, queue, rm, last, calls, lastCall>>

NextStop ==
    \/ EditCreateFile
    \/ EditSaveFile
    \/ ListenerReceives
    \/ ListenerHandles
    \/ ListenerSeesDone
    \/ ListenerStopCalled
    \/ ListenerStopReturns

SpecStop == InitStop /\ [][NextStop]_vars

\* Stop has returned: no handler is running, and the step neither takes an
\* event from the channel nor changes FileManager, RouteTable or watcher.
StoppedStep ==
    /\ lsn'.stop = "returned" => lsn'.pc = "exited"
    /\ lsn.stop = "returned" =>
          /\ fm' = fm /\ rm' = rm /\ fw' = fw /\ last' = last
          /\ Len(queue') >= Len(queue)

\* C33: the listener's stop() drains the in-flight event: it returns only
\* after the handler that was running when stop was called has completed,
\* and after it has returned the listener handles no further event and
\* changes neither the FileManager nor the RouteTable, even if events remain
\* in the channel.
C33_StopDrainsInFlightEvent == [][StoppedStep]_vars

\* Stop was called while a handler was running and has returned; that
\* event was handled, and an event is left in the channel.
C33_Witness ==
    /\ lsn.stop = "returned"
    /\ lsn.inflight
    /\ last.type # "none"
    /\ queue # << >>

\* ------------------------------------------- rebuilds running beside writers
\* ProcessAllFiles and ProcessUpdatedFiles as the goroutines they are, beside
\* callers of AddFile, RemoveFile and RemoveDirectory (the goroutines of
\* TestFileManagerRaceCondition).  Each section of code that holds fm.mu is
\* one step; the pipeline of one File, which runs without the lock, is a
\* step of its own.  threads[t] is what is left of the snapshot of run t:
\* the captured path and *File of each entry, and for the entry in front
\* the File the pipeline returned (new) once it has run.  The heap is not
\* collected here, a run holds pointers the path index may have dropped.
\*
\* mark is history only: fresh holds the paths whose stored File was built
\* by a pipeline run that started after the last AddFile of the path,
\* removed the paths that were removed while a run held them in its
\* snapshot and were not added again; the stale field of an entry says that
\* AddFile reached its path after its pipeline had started.

\* Calls made by writers and runs started in one behaviour.
MaxRaceCalls == 3
\* The goroutines that rebuild: ProcessAllFiles and ProcessUpdatedFiles.
Rebuilders == {"all", "upd1"}
\* The paths the writers name.
RacePaths == {FileA, HeaderPath}

\* The snapshot a run takes under the read lock, as the slice it walks.
Snapshot(st, t) ==
    LET S == IF t = "all" THEN DOMAIN st.files
             ELSE {p \in DOMAIN st.files : NeedsUpdate(st, st.files[p])}
        keys == SelectSeq(FileOrder, LAMBDA k : k \in S)
    IN  [i \in 1..Len(keys) |->
           [path |-> keys[i], file |-> st.files[keys[i]], new |-> Nil, stale |-> FALSE]]

\* A run holds path p in what is left of its snapshot.
Holds(t, p) == \E i \in 1..Len(threads[t]) : threads[t][i].path = p
Held(p) == \E t \in Rebuilders : Holds(t, p)
RunsIdle == \A t \in Rebuilders : threads[t] = << >>

InitRace ==
    /\ disk = SiteBase
    /\ fm \in {Compact(st) : st \in Startup(disk)}
    /\ threads = NoThreads
    /\ mark = [fresh |-> DOMAIN fm.files, removed |-> {}]
    /\ calls = 0
    /\ crashed = FALSE
    /\ last = NoEvent
    /\ fw = NewFileWatcher
    /\ lsn = NewListener
    /\ rm = NewRouterManager
    /\ queue = << >>
    /\ ops = 0
    /\ lastCall = NoCall
    /\ mu = Unlocked
    /\ pm = Plugins

RaceFrame == UNCHANGED <<mu, pm, disk, ops, fw, lsn, queue, rm, lastCall>>

\* fm.mu.RLock(); collect; fm.mu.RUnlock()
RaceSnapshot(t) ==
    /\ ~crashed
    /\ calls < MaxRaceCalls
    /\ threads[t] = << >>
    /\ Snapshot(fm, t) # << >>
    /\ threads' = [threads EXCEPT ![t] = Snapshot(fm, t)]
    /\ calls' = calls + 1
    /\ last' = [type |-> "Snapshot", path |-> << >>]
    /\ UNCHANGED <<fm, mark, crashed>>
    /\ RaceFrame

\* newFile := fm.pluginManager.Process(*u.file, fm), with fm.mu not held.
\* Go ranges over the map in any order, so any entry can be the next.
RacePipeline(t) ==
    /\ ~crashed
    /\ threads[t] # << >>
    /\ threads[t][1].new = Nil
    /\ \E i \in 1..Len(threads[t]) :
          \E st \in {Process(fm, threads[t][i].file, disk)} :
             /\ fm' = st
             /\ threads' = [threads EXCEPT ![t] =
                   <<[threads[t][i] EXCEPT !.new = Len(st.objs)]>>
                   \o SubSeq(threads[t], 1, i - 1)
                   \o SubSeq(threads[t], i + 1, Len(threads[t]))]
             /\ last' = [type |-> "Process", path |-> threads[t][i].path]
    /\ UNCHANGED <<mark, calls, crashed>>
    /\ RaceFrame

\* fm.mu.Lock(); fm.Files[u.path] = newFile; fm.mu.Unlock()
RaceStore(t) ==
    /\ ~crashed
    /\ threads[t] # << >>
    /\ threads[t][1].new # Nil
    /\ LET u == threads[t][1]
       IN  /\ fm' = [fm EXCEPT !.files = MapPut(fm.files, u.path, u.new)]
           /\ mark' = [mark EXCEPT !.fresh = IF u.stale THEN @ \ {u.path}
                                             ELSE @ \cup {u.path}]
           /\ last' = [type |-> "Store", path |-> u.path]
    /\ threads' = [threads EXCEPT ![t] = Tail(@)]
    /\ UNCHANGED <<calls, crashed>>
    /\ RaceFrame

\* The result a run has in hand for path c was built before this AddFile.
Outdated(c) ==
    [t \in DOMAIN threads |->
       [i \in 1..Len(threads[t]) |->
          IF threads[t][i].path = c /\ threads[t][i].new # Nil
          THEN [threads[t][i] EXCEPT !.stale = TRUE]
          ELSE threads[t][i]]]

RaceWriterDone(st, type, p, panic) ==
    /\ calls' = calls + 1
    /\ crashed' = panic
    /\ fm' = st
    /\ last' = [type |-> type, path |-> p]
    /\ RaceFrame

RaceAddFile ==
    /\ ~crashed
    /\ calls < MaxRaceCalls
    /\ \E p \in RacePaths : \E r \in AddFile(fm, p) :
          /\ RaceWriterDone(r.st, "AddFile", p, r.panic)
          /\ threads' = IF r.panic THEN threads ELSE Outdated(p)
          /\ mark' = IF r.panic THEN mark
                     ELSE [mark EXCEPT !.fresh = @ \ {p}, !.removed = @ \ {p}]

RaceRemoveFile ==
    /\ ~crashed
    /\ calls < MaxRaceCalls
    /\ \E p \in RacePaths : \E r \in RemoveFile(fm, p) :
          /\ RaceWriterDone(r.st, "RemoveFile", p, r.panic)
          /\ mark' = IF ~r.panic /\ p \in DOMAIN fm.files /\ Held(p)
                     THEN [mark EXCEPT !.removed = @ \cup {p}] ELSE mark
    /\ UNCHANGED threads

RaceRemoveDirectory ==
    /\ ~crashed
    /\ calls < MaxRaceCalls
    /\ \E r \in RemoveDirectory(fm, ContentDir) :
          /\ RaceWriterDone(r.st, "RemoveDirectory", ContentDir, r.panic)
          /\ mark' = IF r.panic THEN mark
                     ELSE [mark EXCEPT !.removed = @ \cup
                             {p \in DOMAIN fm.files \ DOMAIN r.st.files : Held(p)}]
    /\ UNCHANGED threads

NextRace ==
    \/ \E t \in Rebuilders : RaceSnapshot(t)
    \/ \E t \in Rebuilders : RacePipeline(t)
    \/ \E t \in Rebuilders : RaceStore(t)
    \/ RaceAddFile
    \/ RaceRemoveFile
    \/ RaceRemoveDirectory

SpecRace == InitRace /\ [][NextRace]_vars

\* Everything a reader reaches from the path index: each indexed File with
\* its fields and the two maps it points to.
GraphState(st) ==
    [p \in DOMAIN st.files |->
       [file |-> st.objs[st.files[p]],
        deps |-> st.maps[st.objs[st.files[p]].deps],
        dpts |-> st.maps[st.objs[st.files[p]].dpts]]]

\* The step is the pipeline run of a rebuilding goroutine.
PipelineStep ==
    \E t \in Rebuilders :
       /\ threads[t] # << >> /\ threads[t][1].new = Nil
       /\ threads'[t] # << >> /\ threads'[t][1].new # Nil

\* C34: graph state is mutated only inside the FileManager's write lock: a
\* pipeline run, which works on a by-value copy with the lock not held,
\* changes nothing that is reachable from the graph until its result is
\* stored: no content, dependency set or dependent set of a stored File.
C34_PipelineLeavesGraphAlone == [][PipelineStep => GraphState(fm') = GraphState(fm)]_vars

\* C37: an invalidation is never lost to a concurrent rebuild: when addFile
\* reaches p after a run has started the pipeline on its snapshot of p and
\* before it stores the result, then once the runs have completed p has
\* content absent or content built by a pipeline run that started after the
\* invalidation.
C37_InvalidationSurvivesRebuild ==
    (RunsIdle /\ ~crashed) =>
       \A p \in DOMAIN fm.files :
          FileView(fm, p).content = NoContent \/ p \in mark.fresh

\* C38: a removed File is never resurrected by a rebuild: when removeFile(p)
\* or removeDirectory of an ancestor of p completes while a run that
\* snapshotted p is still running, getFile(p) is still absent after that run
\* has stored its results.
C38_RemovedFileStaysRemoved ==
    (RunsIdle /\ ~crashed) => \A p \in mark.removed : GetFile(fm, p) = Nil

\* ------------------------------------------------ Directory.Files
\* The FileManager with the Files maps of its Directories: fm.tree holds,
\* under the full path, what the Directory of the parent path has
\* registered under the base name.  The operations change fm.Files as
\* before; what each does to Directory.Files is added here.  The heap is
\* not collected: a Directory keeps Files the path index has replaced.

\* Operations called in one run, from the empty FileManager on.
MaxDirCalls == 4
\* Paths and directories the calls name.
DirPaths == {FileA, FileAmd}
DirRoots == {ContentDir, LayoutDir}

InitDirs ==
    /\ disk \in {SiteBase, [SiteBase EXCEPT !.files = @ \cup {FileAmd}]}
    /\ fm = [objs |-> << >>, maps |-> << >>, files |-> EmptyMap, dirs |-> {},
             tree |-> EmptyMap]
    /\ calls = 0
    /\ crashed = FALSE
    /\ last = NoEvent
    /\ mark = NoMark
    /\ threads = NoThreads
    /\ fw = NewFileWatcher
    /\ lsn = NewListener
    /\ rm = NewRouterManager
    /\ queue = << >>
    /\ ops = 0
    /\ lastCall = NoCall
    /\ mu = Unlocked
    /\ pm = Plugins

DirsDone(st, type, p, panic) ==
    /\ calls < MaxDirCalls
    /\ ~crashed
    /\ calls' = calls + 1
    /\ crashed' = panic
    /\ fm' = IF panic THEN fm ELSE st
    /\ last' = [type |-> type, path |-> p]
    /\ UNCHANGED <<mu, threads, pm, disk, ops, mark, fw, lsn, queue, rm, lastCall>>

\* WalkDirectory: fm.Files[relPath] = file; parentDir.Files[fileName] = file
DirsWalkDirectory ==
    \E root \in DirRoots : \E w \in {WalkDirectory(fm, root, disk)} :
       /\ w.ok
       /\ DirsDone([w.st EXCEPT !.tree =
                      [p \in DOMAIN fm.tree \cup {f \in disk.files : Walked(f, root, disk)} |->
                         IF Walked(p, root, disk) /\ p \in disk.files
                         THEN w.st.files[p] ELSE fm.tree[p]]],
                   "WalkDirectory", root, FALSE)

\* AddFile: a new File is put into fm.Files and into parentDir.Files.
DirsAddFile ==
    \E p \in DirPaths : \E r \in AddFile(fm, p) :
       DirsDone(IF r.panic \/ p \in DOMAIN fm.files THEN r.st
                ELSE [r.st EXCEPT !.tree = MapPut(@, p, r.st.files[p])],
                "AddFile", p, r.panic)

\* RemoveFile: delete(fm.Files, cleanPath); delete(parentDir.Files, fileName)
DirsRemoveFile ==
    \E p \in DirPaths : \E r \in RemoveFile(fm, p) :
       DirsDone(IF r.panic \/ p \notin DOMAIN fm.files THEN r.st
                ELSE [r.st EXCEPT !.tree = MapDel(@, p)],
                "RemoveFile", p, r.panic)

\* RemoveDirectory: delete(parentDir.Files, file.Name) for each File it
\* deletes from fm.Files.
DirsRemoveDirectory ==
    \E r \in RemoveDirectory(fm, ContentDir) :
       DirsDone([r.st EXCEPT !.tree =
                   [p \in DOMAIN fm.tree \ (DOMAIN fm.files \ DOMAIN r.st.files) |-> fm.tree[p]]],
                "RemoveDirectory", ContentDir, r.panic)

\* ProcessAllFiles and ProcessUpdatedFiles store into fm.Files only.
DirsProcessAllFiles ==
    /\ fm.files # EmptyMap
    /\ \E st \in ProcessAllFiles(fm, disk) : DirsDone(st, "ProcessAllFiles", << >>, FALSE)

DirsProcessUpdatedFiles ==
    /\ \E p \in DOMAIN fm.files : NeedsUpdate(fm, fm.files[p])
    /\ \E st \in ProcessUpdatedFiles(fm, disk) :
          DirsDone(st, "ProcessUpdatedFiles", << >>, FALSE)

NextDirs ==
    \/ DirsWalkDirectory
    \/ DirsAddFile
    \/ DirsRemoveFile
    \/ DirsRemoveDirectory
    \/ DirsProcessAllFiles
    \/ DirsProcessUpdatedFiles

SpecDirs == InitDirs /\ [][NextDirs]_vars

\* The File the path index holds and the File the Directory holds show the
\* same content, routes and edges.
SameFile(st, a, b) ==
    /\ st.objs[a].content = st.objs[b].content
    /\ st.objs[a].routes = st.objs[b].routes
    /\ st.maps[st.objs[a].deps] = st.maps[st.objs[b].deps]
    /\ st.maps[st.objs[a].dpts] = st.maps[st.objs[b].dpts]

\* C36: the path index and the directory tree agree in every reachable
\* state: a path is in the index if and only if its base name is registered
\* in the Files of the Directory at its parent path, and both refer to the
\* same File, also after a rebuild has stored its results.
C36_IndexAndTreeAgree ==
    ~crashed =>
       /\ DOMAIN fm.tree = DOMAIN fm.files
       /\ \A p \in DOMAIN fm.files : SameFile(fm, fm.files[p], fm.tree[p])

\* -------------------------------------------- the router and the route map

\* After the step the router GetRouter() returns has a handler for exactly
\* the patterns of the route map, each for the path the map holds; a step
\* that replaces the router leaves the engine it replaces as it was.
RouterStep ==
    /\ (~crashed' /\ rm'.router # Nil) => rm'.engines[rm'.router] = rm'.routes
    /\ (rm.router # Nil /\ rm'.router # rm.router) =>
          rm'.engines[rm.router] = rm.engines[rm.router]

\* C35: in every state between RouteTable operations the patterns matched
\* by the router that getRouter() returns are the keys of the route map and
\* each handler targets the path the map holds for its pattern; a rebuild
\* replaces the router in one step, a reader holding the old router sees it
\* complete and unchanged.
C35_RouterMatchesRouteMap == [][RouterStep]_vars

\* A route was removed: the router was rebuilt, serves the routes that are
\* left, and the engine it replaced still has the removed pattern.
C35_Witness ==
    /\ lastCall.op \in {"RemoveRoute", "RemoveFile"} /\ ~lastCall.err
    /\ rm.router = Rebuilt
    /\ rm.routes # EmptyMap
    /\ rm.engines[Rebuilt] = rm.routes
    /\ DOMAIN rm.engines[Handler] # DOMAIN rm.routes

\* ------------------------------------------------ routes of content files

\* The content Files of the graph with a route that is not registered.
Unserved ==
    {p \in DOMAIN fm.files :
        /\ affectsRoutes(p)
        /\ \E r \in NormalizedRoutes(fm.objs[fm.files[p]].routes) :
              r \notin DOMAIN rm.routes}

\* C39: whenever the listener is idle, every normalized route of every File
\* under content/ that is in the graph is registered in the route table; a
\* pattern two files claim is registered for the remaining file when the
\* file that holds it is deleted.
C39_EveryContentRouteIsServed ==
    (queue = << >> /\ ~crashed) => Unserved = {}

\* The part of C39 about a shared pattern: after a handled FileDeleted no
\* pattern that targeted the deleted file and that a remaining File of the
\* graph claims is left unregistered.
SharedPatternKept ==
    (last.type = "FileDeleted" /\ ~last.err) =>
        \A r \in FormerRoutes :
            (\E p \in DOMAIN fm.files :
                /\ affectsRoutes(p)
                /\ r \in NormalizedRoutes(fm.objs[fm.files[p]].routes))
            => r \in DOMAIN rm.routes

\* ------------------------------------------------ closing the event channel

\* A Stop of the watcher that gets as far as close(fw.eventChan) finds the
\* channel open.
ClosingStep ==
    (calls' # calls /\ lastCall'.op = "fw.Stop" /\ fw.running) => ~fw.closed

\* C40: the event channel is closed at most once, for every sequence of
\* start and stop calls: no Stop closes a channel that an earlier Stop has
\* closed.
C40_EventChannelClosedOnce == [][ClosingStep]_vars
====
